---- MODULE Spec2Model ----
(***************************************************************************)
(* State-machine model of the ultra-aggr router (Numi2/sui-numi):          *)
(*   - the execution engine (router/execution.rs) driven by the HTTP order *)
(*     handler (router/router.rs), with its digest set and counters;       *)
(*   - the admission control (control.rs): rate gate and concurrency gate; *)
(*   - the circuit breakers (control.rs) and the validator selector        *)
(*     (router/validator.rs);                                              *)
(*   - the sponsorship manager (sponsorship.rs) and the engine's sponsored *)
(*     compilation (router/execution.rs);                                  *)
(*   - the pure functions: price and size quantization (quant.rs) and the  *)
(*     slippage of a limit order (router/selector.rs);                     *)
(*   - the retry loop of the submission (router/execution.rs);             *)
(*   - the adaptive latency estimates (router/selector.rs), fed by the     *)
(*     router after each execution and overridden by the latency handler,  *)
(*     and the quote handler (router/router.rs).                           *)
(* Each subsystem has its own specification over the shared variables; the *)
(* variables of the other subsystems stay at their initial values.         *)
(***************************************************************************)
EXTENDS Integers, Sequences, FiniteSets, TLC

(***************************************************************************)
(* Bounds of the model.                                                    *)
(***************************************************************************)
\* number of execute calls (HTTP order requests or direct API calls)
NumCalls == 2
\* number of distinct serialized transactions a compile can produce
NumTx == 2
\* submission attempts that fit into the retry loop's elapsed budget
MaxAttempts == 2

\* number of tasks that call AdmissionControl::acquire
NumCallers == 3
\* RateLimiter.rate_per_sec (constructor argument)
RatePerSec == 2
\* capacity of the max_inflight semaphore (constructor argument)
MaxInflight == 1
\* granularity of the clock: the milliseconds one Tick advances Instant::now()
TickMs == 500

\* ms that pass in one step of the circuit breakers' clock
CbTickMs == 2500
\* number of route classes with a circuit breaker
NumClasses == 1
\* Breaker.max_window (100 by default), scaled down
MaxWindow == 3
\* Breaker.min_samples (20 by default), scaled down
MinSamples == 2

\* number of validator endpoints
NumEndpoints == 2
\* cap on the observations recorded over all endpoints
MaxObs == 2
\* ValidatorSelector.min_observations (5 by default), scaled down
MinObservations == 1
\* ValidatorSelector.max_staleness_secs (300 by default), scaled down
MaxStalenessSecs == 1

\* u64::MAX, scaled down: a u64 holds 0..MaxU64 and its arithmetic wraps at
\* MaxU64 + 1 (release build) or panics (debug build)
MaxU64 == 2
\* Budget.window when it is Some: whole seconds
BudgetWindowSecs == 1
\* AbuseConfig.window_duration (3600 s by default), scaled down
AbuseWindowSecs == 1
\* AbuseConfig.max_tx_per_window (1000 by default), scaled down
MaxTxPerWindow == 1
\* AbuseConfig.max_gas_per_window (100_000_000_000 by default), scaled down
MaxGasPerWindow == 1

\* bits of the significand of an f64 (53), scaled down
MantissaBits == 3
\* the f64 inputs drawn are m * 2^e with -ExpBelow <= e <= ExpAbove
ExpBelow == 3
ExpAbove == 1

\* levels of one side of the level-2 book (20 ticks from mid are fetched), scaled down
MaxLevels == 2

\* The retry loop counts time in units of 50 ms (half the initial interval).
\* ExponentialBackoff.max_interval (5 s = 100 units), scaled down
MaxInterval == 4
\* ExponentialBackoff.max_elapsed_time (30 s = 600 units), scaled down
MaxElapsedTime == 8
\* the longest a single submission attempt takes before it returns
MaxAttemptTime == 2

\* RouteSelector.max_samples (100), scaled down
MaxSamples == 3
\* samples a ring must hold before record_latency updates the estimate (10), scaled down
MinLatencySamples == 2
\* number of record_latency calls
MaxRecords == 4
\* number of POST /api/v1/latency requests
MaxOverrides == 1

(***************************************************************************)
(* Constants of the program.                                               *)
(***************************************************************************)
\* RateLimiter.window = Duration::from_secs(1)
WindowMs == 1000
\* tokio::time::sleep(Duration::from_millis(5)) between two polls of the rate gate
SleepMs == 5

\* Breaker.threshold = 0.5, as the fraction ThresholdNum / ThresholdDen
ThresholdNum == 1
ThresholdDen == 2
\* Breaker.open_cooldown = Duration::from_secs(5)
CooldownMs == 5000

\* ValidatorStats::new: effects_ewma_ms = 500.0
PriorEwmaMs == 500
\* ValidatorSelector::default: alpha = 0.2, as the fraction AlphaNum / AlphaDen
AlphaNum == 1
AlphaDen == 5

\* RouteSelector::new(deepbook, 100, 400) in main
BaseLatencyMs == 100
SharedLatencyMs == 400
\* RouteSelector.latency_alpha = 0.1, as the fraction LatencyAlphaNum / LatencyAlphaDen
LatencyAlphaNum == 1
LatencyAlphaDen == 10

\* ExponentialBackoff.initial_interval = 100 ms, in units of 50 ms
InitialInterval == 2
\* ExponentialBackoff.multiplier = 2.0
Multiplier == 2

Calls == 1..NumCalls
Callers == 1..NumCallers
Classes == 1..NumClasses
Endpoints == 1..NumEndpoints
\* Option<String>::None of select_best
NoEndpoint == 0
\* the effects times (ms) observed
Latencies == {100, 900}
TxBytes == 1..NumTx
NoTx == 0

VARIABLES
    call,                   \* per call: position and locals of execute_order / execute_with_sponsorship
    seen_digests,           \* ExecutionEngine.seen_digests
    total_executions,       \* ExecutionEngine.total_executions
    successful_executions,  \* ExecutionEngine.successful_executions
    failed_executions,      \* ExecutionEngine.failed_executions
    use_grpc_execute,       \* ExecutionEngine.use_grpc_execute (startup configuration)
    grpc_exec_feature,      \* cfg(feature = "grpc-exec") of the build
    secret_key_ok,          \* secret_key_hex decodes to 32 bytes
    obs_pc,                 \* position of a get_stats call
    obs_total,              \* get_stats: local `total`
    obs_successful,         \* get_stats: local `successful`
    stats,                  \* the ExecutionStats value get_stats returned last
    adm,                    \* per caller: position in AdmissionControl::acquire
    timestamps,             \* RateLimiter.timestamps, as the age in ms of each Instant
    permits,                \* permits available in the max_inflight semaphore
    sem_queue,              \* the semaphore's FIFO queue of waiting acquirers
    pass_ages,              \* history: ages of the passes of the rate gate
    grant_ages,             \* history: ages of the returns of an AdmissionPermit
    breakers,               \* CircuitBreakers.inner: per class, the Breaker
    cb_ret,                 \* history: the last is_open call and what it returned
    cb_recorded,            \* history: the class whose record call was the last step
    cb_period,              \* history: per class, ms left of the open period a record started
    validators,             \* ValidatorSelector.validators: per endpoint, its ValidatorStats
    vs_ret,                 \* history: the last select_best call and what it returned
    vs_obs,                 \* history: per endpoint, the effects times recorded for it
    vs_marked,              \* history: the endpoints marked unhealthy and not marked healthy since
    rk_ret,                 \* history: the last select_best call of the engine (step 7)
    user_budget,            \* SponsorshipManager.user_budgets: the entry of the user
    abuse_metrics,          \* SponsorshipManager.abuse_metrics: the entry of the user
    gas_coins,              \* SponsorshipManager.gas_coins: how many coins are registered
    overflow_checks,        \* the build: TRUE panics on integer overflow (debug), FALSE wraps
    sp_ret,                 \* history: the last sponsorship operation, what it saw and returned
    sx,                     \* per call of execute_with_sponsorship: its sponsorship locals
    qz,                     \* the inputs of a quantization and what its calls returned
    sl,                     \* the inputs of a slippage calculation and what it returned
    retry,                  \* submit_with_retry alone: the retry loop, its clock and its backoff
    latency_estimate,       \* RouteSelector.base_latency_ms (owned) and shared_object_latency_ms (shared)
    latency_samples,        \* RouteSelector.owned_latency_samples and shared_latency_samples
    rec,                    \* position and locals of a record_latency call
    upd,                    \* position and locals of an update_latency handler
    ls_count,               \* history: how many record_latency calls have started
    rr                      \* history: the observations the selector got per call, and the last quote

exec_vars == <<call, seen_digests, total_executions, successful_executions,
               failed_executions, use_grpc_execute, grpc_exec_feature,
               secret_key_ok, obs_pc, obs_total, obs_successful, stats>>

adm_vars == <<adm, timestamps, permits, sem_queue, pass_ages, grant_ages>>

cb_vars == <<breakers, cb_ret, cb_recorded, cb_period>>

vs_vars == <<validators, vs_ret, vs_obs, vs_marked>>

rk_vars == <<rk_ret>>

sp_vars == <<user_budget, abuse_metrics, gas_coins, overflow_checks, sp_ret>>

sx_vars == <<sx>>

pure_vars == <<qz, sl>>

rt_vars == <<retry>>

ls_vars == <<latency_estimate, latency_samples, rec, upd, ls_count, rr>>

vars == <<exec_vars, adm_vars, cb_vars, vs_vars, rk_vars, sp_vars, sx_vars, pure_vars, rt_vars, ls_vars>>

\* What each subsystem leaves alone.
not_exec_vars == <<adm_vars, cb_vars, vs_vars, rk_vars, sp_vars, sx_vars, pure_vars, rt_vars, ls_vars>>
not_adm_vars == <<exec_vars, cb_vars, vs_vars, rk_vars, sp_vars, sx_vars, pure_vars, rt_vars, ls_vars>>
not_cb_vars == <<exec_vars, adm_vars, vs_vars, rk_vars, sp_vars, sx_vars, pure_vars, rt_vars, ls_vars>>
not_vs_vars == <<exec_vars, adm_vars, cb_vars, rk_vars, sp_vars, sx_vars, pure_vars, rt_vars, ls_vars>>
not_sp_vars == <<exec_vars, adm_vars, cb_vars, vs_vars, rk_vars, sx_vars, pure_vars, rt_vars, ls_vars>>
not_pure_vars == <<exec_vars, adm_vars, cb_vars, vs_vars, rk_vars, sp_vars, sx_vars, rt_vars, ls_vars>>
not_rt_vars == <<exec_vars, adm_vars, cb_vars, vs_vars, rk_vars, sp_vars, sx_vars, pure_vars, ls_vars>>
not_ls_vars == <<exec_vars, adm_vars, cb_vars, vs_vars, rk_vars, sp_vars, sx_vars, pure_vars, rt_vars>>

(***************************************************************************)
(* Execution engine                                                        *)
(***************************************************************************)

\* compute_digest: hex of the first 32 bytes of Blake2b-512 over the bytes.
\* The hash is modelled as collision-free on the bounded set of transactions.
compute_digest(tx_bcs) == <<"blake2b", tx_bcs>>

\* The text of the error a call returns (e.to_string() in the HTTP body), as
\* its words, by the place that raised it.
ErrorMessage(kind) ==
    CASE kind = "select"    -> <<"no", "viable", "routes", "found", "for", "order">>
      [] kind = "compile"   -> <<"build", "DeepBook", "limit", "order", "PTB">>
      [] kind = "sign"      -> <<"signing", "error:", "bad", "hex", "key">>
      [] kind = "duplicate" -> <<"transaction", "already", "executed:", "digest">>
      [] kind = "submit"    -> <<"submission", "failed", "after", "retries:", "cause">>
      [] OTHER              -> << >>

NoIncs == [total |-> 0, successful |-> 0, failed |-> 0]

\* A call that has not started.  pc, tx and attempts are the call's position
\* and locals; the other fields record what the call did:
\*   result       what execute_with_sponsorship (or select_route) returned
\*   permit       the handler holds an AdmissionPermit
\*   ok_at_start  the transactions whose execute had returned Ok when this
\*                call entered execute (kept until the call's bytes are known)
\*   after_ok     this call's bytes are among ok_at_start
\*   submitted    the call reached the submit step (step 5)
\*   incs         the fetch_adds this call made on the three counters
IdleCall ==
    [pc |-> "idle", tx |-> NoTx, attempts |-> 0, result |-> "none",
     permit |-> FALSE, ok_at_start |-> {}, after_ok |-> FALSE,
     submitted |-> FALSE, incs |-> NoIncs]

ExecInit ==
    /\ call = [t \in Calls |-> IdleCall]
    /\ seen_digests = {}
    /\ total_executions = 0
    /\ successful_executions = 0
    /\ failed_executions = 0
    /\ use_grpc_execute \in BOOLEAN
    /\ grpc_exec_feature \in BOOLEAN
    /\ secret_key_ok \in BOOLEAN
    /\ obs_pc = "idle"
    /\ obs_total = 0
    /\ obs_successful = 0
    /\ stats = [total_executions |-> 0, successful_executions |-> 0,
                failed_executions |-> 0]

counters == <<total_executions, successful_executions, failed_executions>>
config == <<use_grpc_execute, grpc_exec_feature, secret_key_ok>>
observer == <<obs_pc, obs_total, obs_successful, stats>>

\* The transactions of the calls that have returned success so far.
ReturnedOk == {call[u].tx : u \in {v \in Calls : call[v].result = "ok"}}

\* POST /api/v1/order: execute_order builds the LimitReq and calls
\* Router::execute_limit_order, which starts with select_route.  Neither
\* acquires an admission permit.
ExecuteOrder(t) ==
    /\ call[t].pc = "idle"
    /\ call' = [call EXCEPT ![t].pc = "selecting"]
    /\ UNCHANGED <<seen_digests, counters, config, observer>>

\* select_route fails with "no viable routes"; the handler answers 500.
SelectRouteFails(t) ==
    /\ call[t].pc = "selecting"
    /\ call' = [call EXCEPT ![t].pc = "done", ![t].result = "select"]
    /\ UNCHANGED <<seen_digests, counters, config, observer>>

\* select_route returned; executor.execute(&best) enters
\* execute_with_sponsorship(plan, false): total_executions.fetch_add(1).
Execute(t) ==
    /\ call[t].pc = "selecting"
    /\ total_executions' = total_executions + 1
    /\ call' = [call EXCEPT ![t].pc = "compiling",
                            ![t].ok_at_start = ReturnedOk,
                            ![t].incs.total = @ + 1]
    /\ UNCHANGED <<seen_digests, successful_executions, failed_executions,
                   config, observer>>

\* Step 1 fails: compile_route returns Err and `?` returns it.
CompileFails(t) ==
    /\ call[t].pc = "compiling"
    /\ call' = [call EXCEPT ![t].pc = "done", ![t].result = "compile",
                            ![t].ok_at_start = {}]
    /\ UNCHANGED <<seen_digests, counters, config, observer>>

\* Step 1 succeeds with the serialized bytes (they depend on the order, the
\* pool parameters, the gas coin selected and the gas price).
CompileRoute(t) ==
    /\ call[t].pc = "compiling"
    /\ \E b \in TxBytes :
          call' = [call EXCEPT ![t].pc = "signing", ![t].tx = b,
                               ![t].after_ok = (b \in call[t].ok_at_start),
                               ![t].ok_at_start = {}]
    /\ UNCHANGED <<seen_digests, counters, config, observer>>

\* Step 2: sign_tx_bcs_ed25519_to_serialized_signature fails exactly when the
\* configured key is not 32 bytes of hex; `?` returns the error.
SignFails(t) ==
    /\ call[t].pc = "signing"
    /\ ~secret_key_ok
    /\ call' = [call EXCEPT ![t].pc = "done", ![t].result = "sign"]
    /\ UNCHANGED <<seen_digests, counters, config, observer>>

\* Steps 2 and 3: signature made, digest computed; next is the read lock.
SignTransaction(t) ==
    /\ call[t].pc = "signing"
    /\ secret_key_ok
    /\ call' = [call EXCEPT ![t].pc = "checking"]
    /\ UNCHANGED <<seen_digests, counters, config, observer>>

\* seen.contains(&digest)
SeenContains(seen, digest) == digest \in seen

\* Step 4, digest present: failed_executions.fetch_add(1), bail.
CheckSeenDuplicate(t) ==
    /\ call[t].pc = "checking"
    /\ SeenContains(seen_digests, compute_digest(call[t].tx))
    /\ failed_executions' = failed_executions + 1
    /\ call' = [call EXCEPT ![t].pc = "done", ![t].result = "duplicate",
                            ![t].incs.failed = @ + 1]
    /\ UNCHANGED <<seen_digests, total_executions, successful_executions,
                   config, observer>>

\* Step 4, digest absent: the read guard is dropped and step 5 starts.
CheckSeenFresh(t) ==
    /\ call[t].pc = "checking"
    /\ ~SeenContains(seen_digests, compute_digest(call[t].tx))
    /\ call' = [call EXCEPT ![t].pc = "submitting", ![t].submitted = TRUE]
    /\ UNCHANGED <<seen_digests, counters, config, observer>>

\* Can an attempt of the retried closure return Ok?  submit_jsonrpc_internal
\* bails after every response; submit_grpc_internal bails at once without the
\* grpc-exec feature and otherwise returns what execute_ptb returned.
AttemptCanSucceed == use_grpc_execute /\ grpc_exec_feature

\* Step 5: an attempt starts: the closure of submit_with_retry is called.
StartAttempt(t) ==
    /\ call[t].pc = "submitting"
    /\ call' = [call EXCEPT ![t].pc = "inflight", ![t].attempts = @ + 1]
    /\ UNCHANGED <<seen_digests, counters, config, observer>>

\* The attempt returns Ok: retry() returns the executed transaction.
AttemptOk(t) ==
    /\ call[t].pc = "inflight"
    /\ AttemptCanSucceed
    /\ call' = [call EXCEPT ![t].pc = "recording", ![t].attempts = 0]
    /\ UNCHANGED <<seen_digests, counters, config, observer>>

\* The attempt returns Err (every error is backoff::Error::transient) and the
\* elapsed budget is not used up: sleep, then try again.
AttemptRetry(t) ==
    /\ call[t].pc = "inflight"
    /\ call[t].attempts < MaxAttempts
    /\ call' = [call EXCEPT ![t].pc = "backoff"]
    /\ UNCHANGED <<seen_digests, counters, config, observer>>

\* The backoff sleep ends.
BackoffEnds(t) ==
    /\ call[t].pc = "backoff"
    /\ call' = [call EXCEPT ![t].pc = "submitting"]
    /\ UNCHANGED <<seen_digests, counters, config, observer>>

\* The attempt returns Err and max_elapsed_time has passed: retry() gives up,
\* failed_executions.fetch_add(1), the error is returned.
SubmitFails(t) ==
    /\ call[t].pc = "inflight"
    /\ failed_executions' = failed_executions + 1
    /\ call' = [call EXCEPT ![t].pc = "done", ![t].result = "submit",
                            ![t].attempts = 0, ![t].incs.failed = @ + 1]
    /\ UNCHANGED <<seen_digests, total_executions, successful_executions,
                   config, observer>>

\* submit_jsonrpc_internal: execute_tx_block returns a response, the endpoint
\* has accepted the transaction; what follows in the function is the bail!.
JsonRpcAccepted(t) ==
    /\ call[t].pc = "inflight"
    /\ ~use_grpc_execute
    /\ call' = [call EXCEPT ![t].pc = "responded"]
    /\ UNCHANGED <<seen_digests, counters, config, observer>>

\* The bail! after the response is an Err like any other (transient) and the
\* elapsed budget is not used up: sleep, then try again.
JsonRpcBailRetried(t) ==
    /\ call[t].pc = "responded"
    /\ call[t].attempts < MaxAttempts
    /\ call' = [call EXCEPT ![t].pc = "backoff"]
    /\ UNCHANGED <<seen_digests, counters, config, observer>>

\* The bail! after the response when max_elapsed_time has passed: retry()
\* gives up, failed_executions.fetch_add(1), the error is returned.
JsonRpcBailFails(t) ==
    /\ call[t].pc = "responded"
    /\ failed_executions' = failed_executions + 1
    /\ call' = [call EXCEPT ![t].pc = "done", ![t].result = "submit",
                            ![t].attempts = 0, ![t].incs.failed = @ + 1]
    /\ UNCHANGED <<seen_digests, total_executions, successful_executions,
                   config, observer>>

\* A digest set that forgets: the insert of step 6 left out.
InsertDigest_Skipped(seen, digest) == seen

\* A digest set that keeps the last digest alone.
InsertDigest_Replacing(seen, digest) == {digest}

\* seen.insert(digest)
InsertDigest(seen, digest) == seen \cup {digest}

\* Step 6: under the write lock, seen.insert(digest.clone()).
RecordDigest(t) ==
    /\ call[t].pc = "recording"
    /\ seen_digests' = InsertDigest(seen_digests, compute_digest(call[t].tx))
    /\ call' = [call EXCEPT ![t].pc = "ranking"]
    /\ UNCHANGED <<counters, config, observer>>

\* Step 7: validator_selector.select_best() and record_effects_time().
RecordEffectsTime(t) ==
    /\ call[t].pc = "ranking"
    /\ call' = [call EXCEPT ![t].pc = "counting"]
    /\ UNCHANGED <<seen_digests, counters, config, observer>>

\* "Update statistics": successful_executions.fetch_add(1); Ok is returned and
\* execute_limit_order awaits selector.record_latency.
UpdateStatistics(t) ==
    /\ call[t].pc = "counting"
    /\ successful_executions' = successful_executions + 1
    /\ call' = [call EXCEPT ![t].pc = "latency", ![t].result = "ok",
                            ![t].incs.successful = @ + 1]
    /\ UNCHANGED <<seen_digests, total_executions, failed_executions,
                   config, observer>>

\* execute_limit_order: record_latency returns, the handler answers 200.
RecordLatency(t) ==
    /\ call[t].pc = "latency"
    /\ call' = [call EXCEPT ![t].pc = "done"]
    /\ UNCHANGED <<seen_digests, counters, config, observer>>

\* The places where a call is suspended (an .await that can be pending).
SuspensionPoints ==
    {"selecting", "compiling", "checking", "inflight", "backoff", "recording",
     "ranking", "latency"}

\* The future of the call is dropped at a suspension point; its locals go.
Cancel(t) ==
    /\ call[t].pc \in SuspensionPoints
    /\ call' = [call EXCEPT ![t].pc = "cancelled", ![t].attempts = 0,
                            ![t].ok_at_start = {}]
    /\ UNCHANGED <<seen_digests, counters, config, observer>>

\* get_stats: the three loads, one atomic load each.
LoadTotal ==
    /\ obs_pc = "idle"
    /\ obs_total' = total_executions
    /\ obs_pc' = "successful"
    /\ UNCHANGED <<call, seen_digests, counters, config, obs_successful, stats>>

LoadSuccessful ==
    /\ obs_pc = "successful"
    /\ obs_successful' = successful_executions
    /\ obs_pc' = "failed"
    /\ UNCHANGED <<call, seen_digests, counters, config, obs_total, stats>>

\* The third load, and the ExecutionStats value is returned.
LoadFailed ==
    /\ obs_pc = "failed"
    /\ stats' = [total_executions |-> obs_total,
                 successful_executions |-> obs_successful,
                 failed_executions |-> failed_executions]
    /\ obs_pc' = "idle"
    /\ obs_total' = 0
    /\ obs_successful' = 0
    /\ UNCHANGED <<call, seen_digests, counters, config>>

GetStats == LoadTotal \/ LoadSuccessful \/ LoadFailed

ExecNext ==
    \E t \in Calls :
       \/ ExecuteOrder(t)
       \/ SelectRouteFails(t)
       \/ Execute(t)
       \/ CompileFails(t)
       \/ CompileRoute(t)
       \/ SignFails(t)
       \/ SignTransaction(t)
       \/ CheckSeenDuplicate(t)
       \/ CheckSeenFresh(t)
       \/ StartAttempt(t)
       \/ AttemptOk(t)
       \/ AttemptRetry(t)
       \/ BackoffEnds(t)
       \/ SubmitFails(t)
       \/ JsonRpcAccepted(t)
       \/ JsonRpcBailRetried(t)
       \/ JsonRpcBailFails(t)
       \/ RecordDigest(t)
       \/ RecordEffectsTime(t)
       \/ UpdateStatistics(t)
       \/ RecordLatency(t)
       \/ Cancel(t)

(***************************************************************************)
(* Admission control                                                       *)
(***************************************************************************)

Min(a, b) == IF a <= b THEN a ELSE b

\* Ages are kept up to just past the window: older instants are all expired.
AgeCap == WindowMs + 1

\* The ages after `ms` milliseconds have passed.
Older(ages, ms) == [i \in 1..Len(ages) |-> Min(ages[i] + ms, AgeCap)]

\* The history keeps the events of the closed trailing window.
InWindow(ages) == SelectSeq(ages, LAMBDA a : a <= WindowMs)

IdleCaller == [pc |-> "idle", slept |-> 0]

\* AdmissionControl::new: an empty deque, a semaphore of max_inflight permits.
AdmInit ==
    /\ adm = [c \in Callers |-> IdleCaller]
    /\ timestamps = << >>
    /\ permits = MaxInflight
    /\ sem_queue = << >>
    /\ pass_ages = << >>
    /\ grant_ages = << >>

\* An eviction that also drops the instant exactly one window old.
Expired_AtWindow(age) == age >= WindowMs

\* now.duration_since(*front) > guard.window
Expired(age) == age > WindowMs

\* while let Some(front) = timestamps.front() { if expired { pop_front() } else { break } }
RECURSIVE Evict(_)
Evict(ts) ==
    IF ts # << >> /\ Expired(Head(ts)) THEN Evict(Tail(ts)) ELSE ts

\* A gate that admits one caller too many.
RateAdmits_OffByOne(len) == len <= RatePerSec

\* (guard.timestamps.len() as u32) < guard.rate_per_sec
RateAdmits(len) == len < RatePerSec

\* A task calls acquire().
Acquire(c) ==
    /\ adm[c].pc = "idle"
    /\ adm' = [adm EXCEPT ![c].pc = "rate"]
    /\ UNCHANGED <<timestamps, permits, sem_queue, pass_ages, grant_ages>>

\* The caller may run the body of the rate loop: it has just entered
\* acquire, or its 5 ms sleep is over.
CanPoll(c) ==
    \/ adm[c].pc = "rate"
    \/ adm[c].pc = "sleeping" /\ adm[c].slept >= SleepMs

\* One iteration of the rate loop under the mutex: evict, then either push
\* `now` and leave the loop, or drop the guard and sleep.
PollRateGate(c) ==
    /\ CanPoll(c)
    /\ LET kept == Evict(timestamps) IN
          IF RateAdmits(Len(kept))
          THEN /\ timestamps' = Append(kept, 0)
               /\ pass_ages' = Append(pass_ages, 0)
               /\ adm' = [adm EXCEPT ![c] = [pc |-> "sem", slept |-> 0]]
          ELSE /\ timestamps' = kept
               /\ pass_ages' = pass_ages
               /\ adm' = [adm EXCEPT ![c] = [pc |-> "sleeping", slept |-> 0]]
    /\ UNCHANGED <<permits, sem_queue, grant_ages>>

\* acquire_owned() polled first: a free permit is taken and the
\* AdmissionPermit returned; without one the caller joins the queue.
AcquireOwned(c) ==
    /\ adm[c].pc = "sem"
    /\ IF permits > 0
       THEN /\ permits' = permits - 1
            /\ adm' = [adm EXCEPT ![c].pc = "held"]
            /\ grant_ages' = Append(grant_ages, 0)
            /\ UNCHANGED sem_queue
       ELSE /\ sem_queue' = Append(sem_queue, c)
            /\ adm' = [adm EXCEPT ![c].pc = "queued"]
            /\ UNCHANGED <<permits, grant_ages>>
    /\ UNCHANGED <<timestamps, pass_ages>>

\* A waiter that was assigned the permit is polled: acquire() returns.
ReturnPermit(c) ==
    /\ adm[c].pc = "granted"
    /\ adm' = [adm EXCEPT ![c].pc = "held"]
    /\ grant_ages' = Append(grant_ages, 0)
    /\ UNCHANGED <<timestamps, permits, sem_queue, pass_ages>>

\* A release that gives back one permit too many.
PermitsAfterRelease_Two(p) == p + 2

\* The available permits after an OwnedSemaphorePermit was dropped with no
\* waiter queued.
PermitsAfterRelease(p) == p + 1

\* A permit goes back to the semaphore: the first waiter of the queue gets
\* it; with no waiter the count of available permits grows.
Release(a) ==
    IF sem_queue # << >>
    THEN /\ sem_queue' = Tail(sem_queue)
         /\ permits' = permits
         /\ adm' = [a EXCEPT ![Head(sem_queue)].pc = "granted"]
    ELSE /\ sem_queue' = sem_queue
         /\ permits' = PermitsAfterRelease(permits)
         /\ adm' = a

\* The AdmissionPermit goes out of scope.
DropPermit(c) ==
    /\ adm[c].pc = "held"
    /\ Release([adm EXCEPT ![c].pc = "idle"])
    /\ UNCHANGED <<timestamps, pass_ages, grant_ages>>

\* The sequence without the caller c.
Without(q, c) == SelectSeq(q, LAMBDA x : x # c)

\* The future of acquire() is dropped while it is suspended: at the mutex,
\* in the sleep, or at the semaphore (a permit already assigned is released).
CancelAcquire(c) ==
    /\ adm[c].pc \in {"rate", "sleeping", "sem", "queued", "granted"}
    /\ IF adm[c].pc = "granted"
       THEN Release([adm EXCEPT ![c] = IdleCaller])
       ELSE /\ adm' = [adm EXCEPT ![c] = IdleCaller]
            /\ sem_queue' = Without(sem_queue, c)
            /\ permits' = permits
    /\ UNCHANGED <<timestamps, pass_ages, grant_ages>>

\* The task of the caller can run now: it is not suspended in the sleep, in
\* the queue of the semaphore, or outside acquire().
Runnable(c) ==
    \/ adm[c].pc \in {"rate", "sem", "granted"}
    \/ adm[c].pc = "sleeping" /\ adm[c].slept >= SleepMs

\* Time passes: Instant::now() advances by TickMs.  The runtime runs every
\* task that can run within one granule of the clock, so time passes only
\* when every caller is suspended (or holds its permit, or is outside).
Tick ==
    /\ \A c \in Callers : ~Runnable(c)
    /\ timestamps' = Older(timestamps, TickMs)
    /\ pass_ages' = InWindow(Older(pass_ages, TickMs))
    /\ grant_ages' = InWindow(Older(grant_ages, TickMs))
    /\ adm' = [c \in Callers |->
                 IF adm[c].pc = "sleeping"
                 THEN [adm[c] EXCEPT !.slept = Min(@ + TickMs, SleepMs)]
                 ELSE adm[c]]
    /\ UNCHANGED <<permits, sem_queue>>

AdmNext ==
    \/ \E c \in Callers :
          \/ Acquire(c)
          \/ PollRateGate(c)
          \/ AcquireOwned(c)
          \/ ReturnPermit(c)
          \/ DropPermit(c)
          \/ CancelAcquire(c)
    \/ Tick

(***************************************************************************)
(* Circuit breakers                                                        *)
(***************************************************************************)

\* Option<Instant>: None, or Some(until) kept as the ms left until `until`
\* (0 once the instant is reached or passed).
None == << >>
Some(ms) == <<ms>>

\* Breaker::default(): empty window, open_until None.
DefaultBreaker == [window |-> << >>, open_until |-> None]

NoRet == [class |-> 0, value |-> FALSE, after_record |-> FALSE, period |-> -1]

\* CircuitBreakers::new(): an empty map; entry().or_insert_with(default)
\* makes every class's first access see the default Breaker.
CbInit ==
    /\ breakers = [k \in Classes |-> DefaultBreaker]
    /\ cb_ret = NoRet
    /\ cb_recorded = 0
    /\ cb_period = [k \in Classes |-> -1]

\* Instant::now() < until
BeforeUntil(open_until) == open_until[1] > 0

\* is_open(class): true while now < until; at or after `until` the field is
\* cleared and the answer is false.
IsOpen(k) ==
    /\ LET b == breakers[k]
           open == b.open_until # None /\ BeforeUntil(b.open_until)
       IN /\ breakers' = [breakers EXCEPT ![k].open_until =
                             IF b.open_until # None /\ ~open THEN None ELSE @]
          /\ cb_ret' = [class |-> k, value |-> open,
                        after_record |-> (cb_recorded = k),
                        period |-> cb_period[k]]
    /\ cb_recorded' = 0
    /\ cb_period' = [cb_period EXCEPT ![k] = IF @ = 0 THEN -1 ELSE @]

\* if b.window.len() == b.max_window { pop_front() }; push_back(failure)
PushOutcome(window, failure) ==
    Append(IF Len(window) = MaxWindow THEN Tail(window) ELSE window, failure)

\* b.window.iter().filter(|x| **x).count()
Fails(window) == Len(SelectSeq(window, LAMBDA x : x))

\* samples >= min_samples and fails / samples >= threshold
Tripped(window) ==
    /\ Len(window) >= MinSamples
    /\ Fails(window) * ThresholdDen >= ThresholdNum * Len(window)

\* A breaker that opens again while it is open.
MayOpen_Always(open_until) == TRUE

\* b.open_until.is_none()
MayOpen(open_until) == open_until = None

\* record(class, failure), called by record_success and record_failure.
Record(k, failure) ==
    LET w == PushOutcome(breakers[k].window, failure)
        opens == Tripped(w) /\ MayOpen(breakers[k].open_until)
    IN /\ breakers' = [breakers EXCEPT ![k] =
                          [window |-> w,
                           open_until |-> IF opens THEN Some(CooldownMs) ELSE @.open_until]]
       /\ cb_period' = [cb_period EXCEPT ![k] =
                            IF opens /\ @ < 0 THEN CooldownMs ELSE @]
       /\ cb_recorded' = k
       /\ cb_ret' = NoRet

RecordSuccess(k) == Record(k, FALSE)

RecordFailure(k) == Record(k, TRUE)

\* The ms left after `ms` more have passed.
Left(rem, ms) == IF rem > ms THEN rem - ms ELSE 0

\* Time passes: Instant::now() advances by CbTickMs.
CbTick ==
    /\ breakers' = [k \in Classes |->
                      [breakers[k] EXCEPT !.open_until =
                          IF @ = None THEN None ELSE Some(Left(@[1], CbTickMs))]]
    /\ cb_period' = [k \in Classes |->
                       IF cb_period[k] < 0 THEN -1 ELSE Left(cb_period[k], CbTickMs)]
    /\ cb_recorded' = 0
    /\ cb_ret' = NoRet

CbNext ==
    \/ \E k \in Classes : IsOpen(k) \/ RecordSuccess(k) \/ RecordFailure(k)
    \/ CbTick

(***************************************************************************)
(* Validator selector                                                      *)
(*                                                                         *)
(* An f64 of milliseconds is kept as the exact fraction <<num, den>>;      *)
(* Instants are kept as their age in whole seconds (as_secs() truncates),  *)
(* up to max_staleness_secs, from where on every age is stale.             *)
(***************************************************************************)

Rat(n) == <<n, 1>>

\* a.partial_cmp(&b) == Less
RatLess(a, b) == a[1] * b[2] < b[1] * a[2]

RatEq(a, b) == a[1] * b[2] = b[1] * a[2]

\* An endpoint that is not a key of the map.
Unregistered ==
    [registered |-> FALSE, effects_ewma_ms |-> Rat(0), observations |-> 0,
     last_update |-> 0, healthy |-> FALSE]

\* ValidatorStats::new()
NewStats ==
    [registered |-> TRUE, effects_ewma_ms |-> Rat(PriorEwmaMs),
     observations |-> 0, last_update |-> 0, healthy |-> TRUE]

NoSelect == [called |-> FALSE, value |-> NoEndpoint]

\* ValidatorSelector::new: an empty map.
VsInit ==
    /\ validators = [e \in Endpoints |-> Unregistered]
    /\ vs_ret = NoSelect
    /\ vs_obs = [e \in Endpoints |-> << >>]
    /\ vs_marked = {}

\* An update that never discards the prior.
IsFirstObservation_Never(observations) == FALSE

\* self.observations == 0
IsFirstObservation(observations) == observations = 0

\* ValidatorStats::update_ewma(observed_ms, alpha)
update_ewma(st, observed_ms) ==
    [st EXCEPT
        !.effects_ewma_ms =
            IF IsFirstObservation(st.observations)
            THEN Rat(observed_ms)
            ELSE <<AlphaNum * observed_ms * @[2] + (AlphaDen - AlphaNum) * @[1],
                   AlphaDen * @[2]>>,
        !.observations = @ + 1,
        !.last_update = 0]

\* register(endpoint): entry(id).or_insert_with(ValidatorStats::new)
register(vals, e) ==
    IF vals[e].registered THEN vals ELSE [vals EXCEPT ![e] = NewStats]

\* record_effects_time(endpoint, effects_time_ms): nothing for an endpoint
\* that is not registered.
record_effects_time(vals, e, ms) ==
    IF vals[e].registered
    THEN [vals EXCEPT ![e] = update_ewma(@, ms)]
    ELSE vals

\* mark_unhealthy(endpoint)
mark_unhealthy(vals, e) ==
    IF vals[e].registered THEN [vals EXCEPT ![e].healthy = FALSE] ELSE vals

\* mark_healthy(endpoint)
mark_healthy(vals, e) ==
    IF vals[e].registered THEN [vals EXCEPT ![e].healthy = TRUE] ELSE vals

\* A staleness test that still accepts the age max_staleness_secs.
Fresh_Inclusive(age) == age <= MaxStalenessSecs

\* now.duration_since(stats.last_update).as_secs() < self.max_staleness_secs
Fresh(age) == age < MaxStalenessSecs

\* The filter of `candidates`.
IsCandidate(st) ==
    /\ st.registered
    /\ st.healthy
    /\ st.observations >= MinObservations
    /\ Fresh(st.last_update)

\* A selector with no fallback.
IsFallback_Never(st) == FALSE

\* A fallback that also takes unhealthy endpoints.
IsFallback_Any(st) == st.registered

\* The filter of the fallback.
IsFallback(st) == st.registered /\ st.healthy

\* min_by / sort_by + first over partial_cmp: an endpoint no other one of
\* the set is less than (which one of several, the map's iteration order
\* decides).
MinByEwma(vals, S) ==
    {e \in S : \A f \in S :
        ~RatLess(vals[f].effects_ewma_ms, vals[e].effects_ewma_ms)}

\* select_best(): the values it can return.
select_best(vals) ==
    LET candidates == {e \in Endpoints : IsCandidate(vals[e])}
        fallback == {e \in Endpoints : IsFallback(vals[e])}
    IN IF candidates = {}
       THEN IF fallback = {} THEN {NoEndpoint} ELSE MinByEwma(vals, fallback)
       ELSE MinByEwma(vals, candidates)

\* The observations recorded over all endpoints.
RECURSIVE TotalObs(_, _)
TotalObs(vals, S) ==
    IF S = {} THEN 0
    ELSE LET e == CHOOSE x \in S : TRUE
         IN vals[e].observations + TotalObs(vals, S \ {e})

VsRegister(e) ==
    /\ validators' = register(validators, e)
    /\ vs_ret' = NoSelect
    /\ UNCHANGED <<vs_obs, vs_marked>>

VsRecordEffectsTime(e) ==
    /\ TotalObs(validators, Endpoints) < MaxObs
    /\ \E ms \in Latencies :
          /\ validators' = record_effects_time(validators, e, ms)
          /\ vs_obs' = IF validators[e].registered
                       THEN [vs_obs EXCEPT ![e] = Append(@, ms)]
                       ELSE vs_obs
    /\ vs_ret' = NoSelect
    /\ UNCHANGED vs_marked

VsMarkUnhealthy(e) ==
    /\ validators' = mark_unhealthy(validators, e)
    /\ vs_marked' = IF validators[e].registered THEN vs_marked \cup {e} ELSE vs_marked
    /\ vs_ret' = NoSelect
    /\ UNCHANGED vs_obs

VsMarkHealthy(e) ==
    /\ validators' = mark_healthy(validators, e)
    /\ vs_marked' = vs_marked \ {e}
    /\ vs_ret' = NoSelect
    /\ UNCHANGED vs_obs

VsSelectBest ==
    /\ \E r \in select_best(validators) :
          vs_ret' = [called |-> TRUE, value |-> r]
    /\ UNCHANGED <<validators, vs_obs, vs_marked>>

\* One second passes.
VsTick ==
    /\ validators' = [e \in Endpoints |->
                        [validators[e] EXCEPT !.last_update =
                            IF validators[e].registered /\ @ < MaxStalenessSecs
                            THEN @ + 1 ELSE @]]
    /\ vs_ret' = NoSelect
    /\ UNCHANGED <<vs_obs, vs_marked>>

VsNext ==
    \/ \E e \in Endpoints :
          \/ VsRegister(e)
          \/ VsRecordEffectsTime(e)
          \/ VsMarkUnhealthy(e)
          \/ VsMarkHealthy(e)
    \/ VsSelectBest
    \/ VsTick

(***************************************************************************)
(* The engine and its validator selector                                   *)
(***************************************************************************)

NoRank ==
    [called |-> FALSE, value |-> NoEndpoint, by |-> 0,
     eligible |-> FALSE, healthy |-> FALSE]

RkInit == rk_ret = NoRank

\* A selector as startup and operation can have left it: each endpoint not
\* registered, registered, or registered and marked unhealthy.
RkSelectorInit ==
    /\ vs_marked \in SUBSET Endpoints
    /\ \E reg \in SUBSET Endpoints :
          /\ vs_marked \subseteq reg
          /\ validators = [e \in Endpoints |->
                             IF e \notin reg THEN Unregistered
                             ELSE [NewStats EXCEPT !.healthy = (e \notin vs_marked)]]
    /\ vs_ret = NoSelect
    /\ vs_obs = [e \in Endpoints |-> << >>]

\* The endpoint the engine's clients are connected to (config.grpc_endpoint),
\* which serves every submission: the first of the endpoints.
ServingEndpoint == 1

\* Step 7 with its selector: select_best(), and for Some(endpoint)
\* record_effects_time(&endpoint, effects_time_ms).
RankAfterSubmit(t) ==
    /\ RecordEffectsTime(t)
    /\ \E r \in select_best(validators) :
          /\ rk_ret' =
                [called |-> TRUE, value |-> r, by |-> t,
                 eligible |->
                    \E e \in Endpoints :
                        /\ validators[e].registered
                        /\ validators[e].healthy
                        /\ validators[e].observations >= MinObservations
                        /\ validators[e].last_update < MaxStalenessSecs,
                 healthy |->
                    \E e \in Endpoints :
                        validators[e].registered /\ validators[e].healthy]
          /\ IF r = NoEndpoint
             THEN UNCHANGED <<validators, vs_obs>>
             ELSE \E ms \in Latencies :
                     /\ validators' = record_effects_time(validators, r, ms)
                     /\ vs_obs' = [vs_obs EXCEPT ![r] = Append(@, ms)]
    /\ UNCHANGED <<vs_ret, vs_marked>>

\* No other request is in progress.
RkAlone(t) ==
    \A u \in Calls \ {t} : call[u].pc \in {"idle", "done", "cancelled"}

\* The future of the request is dropped at the awaits of step 7 or after.
RkCancel(t) == call[t].pc \in {"ranking", "latency"} /\ Cancel(t)

\* The steps of execute_order that do not touch the selector.
RkPipeline(t) ==
    /\ \/ ExecuteOrder(t)
       \/ SelectRouteFails(t)
       \/ Execute(t)
       \/ CompileFails(t)
       \/ CompileRoute(t)
       \/ SignTransaction(t)
       \/ CheckSeenDuplicate(t)
       \/ CheckSeenFresh(t)
       \/ StartAttempt(t)
       \/ AttemptOk(t)
       \/ AttemptRetry(t)
       \/ BackoffEnds(t)
       \/ SubmitFails(t)
       \/ RecordDigest(t)
       \/ UpdateStatistics(t)
       \/ RecordLatency(t)
       \/ RkCancel(t)
    /\ UNCHANGED <<vs_vars, rk_vars>>

\* The requests are served one after the other.
RkNext ==
    \E t \in Calls : RkAlone(t) /\ (RkPipeline(t) \/ RankAfterSubmit(t))

(***************************************************************************)
(* Sponsorship manager                                                     *)
(*                                                                         *)
(* The budget and the abuse metrics are those of one user (the engine's    *)
(* user_address); the entries of other users are independent of them.      *)
(* Instants are kept as their age in whole seconds, up to the window they  *)
(* are compared with.  The lock scopes of one call are taken in one step.  *)
(***************************************************************************)

U64 == 0..MaxU64

\* the per_tx_limit arguments of set_user_budget: a small limit, and none
PerTxLimits == {1, MaxU64}

\* a + b does not fit into a u64
Overflows(a, b) == a + b > MaxU64

\* a + b of two u64 in a build without overflow checks
WrappingAdd(a, b) == (a + b) % (MaxU64 + 1)

\* user_budgets.get(&user) = None
NoBudget ==
    [present |-> FALSE, total_budget |-> 0, spent |-> 0, has_window |-> FALSE,
     since_reset |-> 0, per_tx_limit |-> 0]

\* Budget::new
BudgetNew(total_budget, per_tx_limit, has_window) ==
    [present |-> TRUE, total_budget |-> total_budget, spent |-> 0,
     has_window |-> has_window, since_reset |-> 0, per_tx_limit |-> per_tx_limit]

\* abuse_metrics.get(&user) = None
NoMetrics == [present |-> FALSE, tx_count |-> 0, gas_spent |-> 0, since_start |-> 0]

\* AbuseMetrics::new
AbuseMetricsNew == [present |-> TRUE, tx_count |-> 0, gas_spent |-> 0, since_start |-> 0]

\* the last step was no call of can_sponsor, execute_with_sponsorship or
\* build_and_sign_sponsored_transaction
NoSpRet ==
    [op |-> "none", gas |-> 0, ret |-> "none", budget_ret |-> "none",
     spent_before |-> 0, since_reset_before |-> 0,
     tx_count_before |-> 0, gas_spent_before |-> 0]

SpInit ==
    /\ user_budget = NoBudget
    /\ abuse_metrics = NoMetrics
    /\ gas_coins = 0
    /\ overflow_checks \in BOOLEAN
    /\ sp_ret = NoSpRet

\* the sponsorship manager at rest, in a release build
SpQuiet == SpInit /\ ~overflow_checks

WindowElapsed_Late(b) == b.has_window /\ b.since_reset > BudgetWindowSecs

\* if let Some(window) = self.window { if self.last_reset.elapsed() >= window
WindowElapsed(b) == b.has_window /\ b.since_reset >= BudgetWindowSecs

\* Budget::can_spend: the budget it leaves and what it returns
can_spend(b, amount) ==
    LET b1 == IF WindowElapsed(b)
              THEN [b EXCEPT !.spent = 0, !.since_reset = 0]
              ELSE b
    IN  IF amount > b1.per_tx_limit
        THEN [budget |-> b1, ret |-> "false"]
        ELSE IF Overflows(b1.spent, amount) /\ overflow_checks
        THEN [budget |-> b1, ret |-> "panic"]
        ELSE [budget |-> b1,
              ret |-> IF WrappingAdd(b1.spent, amount) <= b1.total_budget
                      THEN "true" ELSE "false"]

\* Budget::spend
spend(b, amount) ==
    IF Overflows(b.spent, amount) /\ overflow_checks
    THEN [budget |-> b, ret |-> "panic"]
    ELSE [budget |-> [b EXCEPT !.spent = WrappingAdd(b.spent, amount)], ret |-> "ok"]

\* self.window_start.elapsed() >= self.window_duration
AbuseWindowElapsed(m) == m.since_start >= AbuseWindowSecs

\* AbuseMetrics::record_tx
record_tx(m, gas) ==
    LET m1 == IF AbuseWindowElapsed(m)
              THEN [m EXCEPT !.tx_count = 0, !.gas_spent = 0, !.since_start = 0]
              ELSE m
        m2 == [m1 EXCEPT !.tx_count = WrappingAdd(m1.tx_count, 1)]
        m3 == [m2 EXCEPT !.gas_spent = WrappingAdd(m2.gas_spent, gas)]
    IN  IF Overflows(m1.tx_count, 1) /\ overflow_checks
        THEN [metrics |-> m1, ret |-> "panic"]
        ELSE IF Overflows(m2.gas_spent, gas) /\ overflow_checks
        THEN [metrics |-> m2, ret |-> "panic"]
        ELSE [metrics |-> m3, ret |-> "ok"]

\* AbuseMetrics::check_limits
check_limits(m) ==
    \/ AbuseWindowElapsed(m)
    \/ m.tx_count <= MaxTxPerWindow /\ m.gas_spent <= MaxGasPerWindow

\* metrics.entry(user).or_insert_with(|| AbuseMetrics::new(..))
EntryOrInsert(m) == IF m.present THEN m ELSE AbuseMetricsNew

\* SponsorshipManager::can_sponsor: the budget and the metrics it leaves, what
\* Budget::can_spend returned to it ("none": the user has no budget), and
\* what it returns
can_sponsor(estimated_gas) ==
    LET cs == IF user_budget.present
              THEN can_spend(user_budget, estimated_gas)
              ELSE [budget |-> user_budget, ret |-> "none"]
        m1 == EntryOrInsert(abuse_metrics)
    IN  IF cs.ret \in {"false", "panic"}
        THEN [budget |-> cs.budget, metrics |-> abuse_metrics,
              budget_ret |-> cs.ret, ret |-> cs.ret]
        ELSE IF ~check_limits(m1)
        THEN [budget |-> cs.budget, metrics |-> m1,
              budget_ret |-> cs.ret, ret |-> "false"]
        ELSE IF gas_coins = 0
        THEN [budget |-> cs.budget, metrics |-> m1,
              budget_ret |-> cs.ret, ret |-> "false"]
        ELSE [budget |-> cs.budget, metrics |-> m1,
              budget_ret |-> cs.ret, ret |-> "true"]

\* A record_spending that opens a budget entry for a user that has none.
record_spending_Inserting(gas) ==
    LET b == IF user_budget.present THEN user_budget ELSE BudgetNew(0, MaxU64, FALSE)
        rt == record_tx(EntryOrInsert(abuse_metrics), gas)
    IN  [budget |-> spend(b, gas).budget, metrics |-> rt.metrics, ret |-> rt.ret]

\* SponsorshipManager::record_spending
record_spending(gas) ==
    LET sp == IF user_budget.present
              THEN spend(user_budget, gas)
              ELSE [budget |-> user_budget, ret |-> "ok"]
        rt == record_tx(EntryOrInsert(abuse_metrics), gas)
    IN  IF sp.ret = "panic"
        THEN [budget |-> sp.budget, metrics |-> abuse_metrics, ret |-> "panic"]
        ELSE [budget |-> sp.budget, metrics |-> rt.metrics, ret |-> rt.ret]

\* the record of an admission: the gas asked for, what Budget::can_spend
\* returned, what the call returned, and the counters and the age of the
\* budget it started from
SpRet(op, gas, ret, budget_ret) ==
    [op |-> op, gas |-> gas, ret |-> ret, budget_ret |-> budget_ret,
     spent_before |-> user_budget.spent,
     since_reset_before |-> user_budget.since_reset,
     tx_count_before |-> abuse_metrics.tx_count,
     gas_spent_before |-> abuse_metrics.gas_spent]

\* SponsorshipManager::set_user_budget
SetUserBudget(total_budget, per_tx_limit, has_window) ==
    /\ user_budget' = BudgetNew(total_budget, per_tx_limit, has_window)
    /\ sp_ret' = NoSpRet
    /\ UNCHANGED <<abuse_metrics, gas_coins, overflow_checks>>

\* SponsorshipManager::update_gas_coins
UpdateGasCoins(coins) ==
    /\ gas_coins' = coins
    /\ sp_ret' = NoSpRet
    /\ UNCHANGED <<user_budget, abuse_metrics, overflow_checks>>

\* a call of SponsorshipManager::can_sponsor
CanSponsor(estimated_gas) ==
    LET r == can_sponsor(estimated_gas)
    IN  /\ user_budget' = r.budget
        /\ abuse_metrics' = r.metrics
        /\ sp_ret' = SpRet("can_sponsor", estimated_gas, r.ret, r.budget_ret)
        /\ UNCHANGED <<gas_coins, overflow_checks>>

\* SponsorshipManager::build_and_sign_sponsored_transaction when the build
\* (no gas object refs) or the sponsor's signature fails: nothing is recorded
BuildAndSignFails ==
    /\ sp_ret' = [NoSpRet EXCEPT !.op = "build_and_sign", !.ret = "error"]
    /\ UNCHANGED <<user_budget, abuse_metrics, gas_coins, overflow_checks>>

\* SponsorshipManager::build_and_sign_sponsored_transaction: build, sign,
\* record the spending
BuildAndSign(gas_budget) ==
    LET r == record_spending(gas_budget)
    IN  /\ user_budget' = r.budget
        /\ abuse_metrics' = r.metrics
        /\ sp_ret' = [NoSpRet EXCEPT !.op = "build_and_sign", !.ret = r.ret]
        /\ UNCHANGED <<gas_coins, overflow_checks>>

\* ExecutionEngine::execute_with_sponsorship(plan, true), its steps 1 and 2:
\* compile_route_sponsored asks can_sponsor and, when refused, compiles the
\* self-paid transaction ("fallback"); when admitted it builds the sponsored
\* transaction data, and sign_sponsored_transaction adds the signatures of
\* the user and of the sponsor ("sponsored")
EngineSponsored(estimated_gas) ==
    LET r == can_sponsor(estimated_gas)
    IN  /\ user_budget' = r.budget
        /\ abuse_metrics' = r.metrics
        /\ sp_ret' = SpRet("execute_with_sponsorship", estimated_gas,
                           CASE r.ret = "panic" -> "panic"
                             [] r.ret = "false" -> "fallback"
                             [] OTHER -> "sponsored",
                           r.budget_ret)
        /\ UNCHANGED <<gas_coins, overflow_checks>>

\* the same when, after the admission, the build, the resolution of the gas
\* coins or a signature fails
EngineSponsoredFails(estimated_gas) ==
    LET r == can_sponsor(estimated_gas)
    IN  /\ r.ret = "true"
        /\ user_budget' = r.budget
        /\ abuse_metrics' = r.metrics
        /\ sp_ret' = SpRet("execute_with_sponsorship", estimated_gas, "error",
                           r.budget_ret)
        /\ UNCHANGED <<gas_coins, overflow_checks>>

\* one second passes
SpTick ==
    /\ user_budget' =
         IF user_budget.present /\ user_budget.has_window
            /\ user_budget.since_reset < BudgetWindowSecs
         THEN [user_budget EXCEPT !.since_reset = @ + 1]
         ELSE user_budget
    /\ abuse_metrics' =
         IF abuse_metrics.present /\ abuse_metrics.since_start < AbuseWindowSecs
         THEN [abuse_metrics EXCEPT !.since_start = @ + 1]
         ELSE abuse_metrics
    /\ sp_ret' = NoSpRet
    /\ UNCHANGED <<gas_coins, overflow_checks>>

SpNext ==
    \/ \E total_budget \in U64, per_tx_limit \in PerTxLimits,
          has_window \in BOOLEAN :
          SetUserBudget(total_budget, per_tx_limit, has_window)
    \/ \E coins \in 0..1 : UpdateGasCoins(coins)
    \/ \E estimated_gas \in U64 : CanSponsor(estimated_gas)
    \/ BuildAndSignFails
    \/ \E gas_budget \in U64 : BuildAndSign(gas_budget)
    \/ \E estimated_gas \in U64 : EngineSponsored(estimated_gas)
    \/ \E estimated_gas \in U64 : EngineSponsoredFails(estimated_gas)
    \/ SpTick

(***************************************************************************)
(* The engine and its sponsorship manager                                  *)
(*                                                                         *)
(* execute_with_sponsorship(plan, true) of an engine built with            *)
(* with_sponsorship, called through the library interface; the calls are  *)
(* served one after the other.                                             *)
(***************************************************************************)

\* the locals of a call: use_sponsorship, why can_sponsor refused (if it
\* did), is_sponsored, and who signed the bytes that are submitted
NoSx ==
    [use_sponsorship |-> FALSE, refused |-> "none", is_sponsored |-> FALSE,
     signatures |-> {}]

SxInit == sx = [t \in Calls |-> NoSx]

\* the sponsorship manager when the engine starts to use it: with or without
\* a gas coin, a budget (used up or not) and abuse counters (over the limit
\* or not), in a release build
SxSponsorInit ==
    /\ gas_coins \in 0..1
    /\ user_budget \in
         {NoBudget} \cup {[BudgetNew(1, 1, FALSE) EXCEPT !.spent = sp] : sp \in 0..1}
    /\ abuse_metrics \in
         {NoMetrics, [AbuseMetricsNew EXCEPT !.tx_count = MaxTxPerWindow + 1]}
    /\ overflow_checks = FALSE
    /\ sp_ret = NoSpRet

\* execute_with_sponsorship(plan, true): total_executions.fetch_add(1)
SxExecute(t) ==
    /\ call[t].pc = "idle"
    /\ total_executions' = total_executions + 1
    /\ call' = [call EXCEPT ![t].pc = "compiling",
                            ![t].ok_at_start = ReturnedOk,
                            ![t].incs.total = @ + 1]
    /\ sx' = [sx EXCEPT ![t].use_sponsorship = TRUE]
    /\ UNCHANGED <<seen_digests, successful_executions, failed_executions,
                   config, observer, sp_vars>>

\* why can_sponsor returns false: the first of its three checks that fails
RefusalReason(estimated_gas) ==
    LET r == can_sponsor(estimated_gas)
    IN  IF r.budget_ret = "false" THEN "budget"
        ELSE IF ~check_limits(r.metrics) THEN "abuse"
        ELSE "coins"

\* a compile_route_sponsored that gives up when can_sponsor refuses
AfterCanSponsor_Bail(admitted) == IF admitted THEN "sponsored" ELSE "error"

\* compile_route_sponsored after can_sponsor: build the sponsored
\* transaction, or `return Ok((self.compile_route(plan).await?, false))`
AfterCanSponsor(admitted) == IF admitted THEN "sponsored" ELSE "self_paid"

\* Step 1 with sponsorship: can_sponsor, then the sponsored or the self-paid
\* compilation, each of which returns the bytes or an error
SxCompile(t, estimated_gas) ==
    LET r == can_sponsor(estimated_gas)
        way == AfterCanSponsor(r.ret = "true")
    IN  /\ call[t].pc = "compiling"
        /\ sx[t].use_sponsorship
        /\ r.ret \in {"true", "false"}
        /\ user_budget' = r.budget
        /\ abuse_metrics' = r.metrics
        /\ sp_ret' = SpRet("execute_with_sponsorship", estimated_gas,
                           IF r.ret = "true" THEN "sponsored" ELSE "fallback",
                           r.budget_ret)
        /\ UNCHANGED <<gas_coins, overflow_checks>>
        /\ sx' = [sx EXCEPT
                    ![t].refused =
                        IF r.ret = "false" THEN RefusalReason(estimated_gas)
                        ELSE "none",
                    ![t].is_sponsored = (way = "sponsored")]
        /\ IF way = "error"
           THEN /\ call' = [call EXCEPT ![t].pc = "done",
                                        ![t].result = "sponsorship",
                                        ![t].ok_at_start = {}]
                /\ UNCHANGED <<seen_digests, counters, config, observer>>
           ELSE CompileRoute(t) \/ CompileFails(t)

\* Step 2: the user's signature and, for a sponsored transaction, the
\* sponsor's signature
SxSign(t) ==
    /\ SignTransaction(t)
    /\ sx' = [sx EXCEPT ![t].signatures =
                 IF sx[t].is_sponsored THEN {"user", "sponsor"} ELSE {"user"}]
    /\ UNCHANGED sp_vars

\* Step 2 of a sponsored transaction fails: the sponsor's key does not sign
SxSponsorSignFails(t) ==
    /\ call[t].pc = "signing"
    /\ sx[t].is_sponsored
    /\ call' = [call EXCEPT ![t].pc = "done", ![t].result = "sign"]
    /\ UNCHANGED <<seen_digests, counters, config, observer, sp_vars, sx_vars>>

\* No other call is in progress.
SxAlone(t) ==
    \A u \in Calls \ {t} : call[u].pc \in {"idle", "done", "cancelled"}

\* The steps after the signatures; the caller goes on after Ok is returned.
SxPipeline(t) ==
    /\ \/ CheckSeenDuplicate(t)
       \/ CheckSeenFresh(t)
       \/ StartAttempt(t)
       \/ AttemptOk(t)
       \/ AttemptRetry(t)
       \/ BackoffEnds(t)
       \/ SubmitFails(t)
       \/ RecordDigest(t)
       \/ RecordEffectsTime(t)
       \/ UpdateStatistics(t)
       \/ RecordLatency(t)
    /\ UNCHANGED <<sp_vars, sx_vars>>

SxNext ==
    \E t \in Calls :
       /\ SxAlone(t)
       /\ \/ SxExecute(t)
          \/ \E estimated_gas \in {1, MaxU64} : SxCompile(t, estimated_gas)
          \/ SxSign(t)
          \/ SxSponsorSignFails(t)
          \/ SxPipeline(t)

(***************************************************************************)
(* Quantization (quant.rs)                                                 *)
(*                                                                         *)
(* An f64 is a binary floating-point number with a significand of          *)
(* MantissaBits bits, kept as the fraction <<n, d>> in lowest terms; every *)
(* operation rounds its exact result to the nearest such number, ties to   *)
(* the even significand.  The inputs drawn are positive and finite and the *)
(* exponents stay in range.                                                *)
(***************************************************************************)

RECURSIVE Pow2(_)
Pow2(k) == IF k = 0 THEN 1 ELSE 2 * Pow2(k - 1)

RECURSIVE GCD(_, _)
GCD(a, b) == IF b = 0 THEN a ELSE GCD(b, a % b)

Reduce(n, d) == LET g == GCD(n, d) IN <<n \div g, d \div g>>

\* the f64 with significand m and exponent e
FloatOf(m, e) == IF e >= 0 THEN <<m * Pow2(e), 1>> ELSE Reduce(m, Pow2(-e))

\* the positive finite f64 values passed in
Floats ==
    {FloatOf(m, e) : m \in Pow2(MantissaBits - 1)..(Pow2(MantissaBits) - 1),
                     e \in (-ExpBelow)..ExpAbove}

\* the exponents the results of one operation on these values can have
Exponents ==
    LET span == 2 * (ExpBelow + ExpAbove + MantissaBits) IN (-span)..span

\* the exact value n / d rounded to the nearest f64, ties to even
RoundToFloat(n, d) ==
    LET Scaled(e) == IF e >= 0 THEN <<n, d * Pow2(e)>> ELSE <<n * Pow2(-e), d>>
        e == CHOOSE x \in Exponents :
                /\ Pow2(MantissaBits - 1) * Scaled(x)[2] <= Scaled(x)[1]
                /\ Scaled(x)[1] < Pow2(MantissaBits) * Scaled(x)[2]
        sc == Scaled(e)
        m0 == sc[1] \div sc[2]
        rem == sc[1] % sc[2]
        m == IF 2 * rem > sc[2] \/ (2 * rem = sc[2] /\ m0 % 2 = 1)
             THEN m0 + 1 ELSE m0
    IN  FloatOf(m, e)

\* a / b and a * b of two f64
FDiv(a, b) == RoundToFloat(a[1] * b[2], a[2] * b[1])
FMul(a, b) == RoundToFloat(a[1] * b[1], a[2] * b[2])

\* f64::floor, as the integer it returns
Floor(a) == a[1] \div a[2]

\* a >= b of two f64
FGreaterEq(a, b) == a[1] * b[2] >= b[1] * a[2]

\* x.is_finite() && x > 0.0
IsPositiveFinite(x) == x[1] > 0 /\ x[2] > 0

QErr == [ok |-> FALSE, value |-> <<0, 1>>]
QOk(v) == [ok |-> TRUE, value |-> v]

\* quant::quantize_price
quantize_price(price, tick_size) ==
    IF ~IsPositiveFinite(tick_size) THEN QErr
    ELSE IF ~IsPositiveFinite(price) THEN QErr
    ELSE LET steps == Floor(FDiv(price, tick_size))
         IN  IF ~(steps >= 1) THEN QErr
             ELSE QOk(FMul(<<steps, 1>>, tick_size))

\* quant::quantize_size
quantize_size(quantity, lot_size, min_size) ==
    IF ~IsPositiveFinite(lot_size) THEN QErr
    ELSE IF ~IsPositiveFinite(min_size) THEN QErr
    ELSE IF ~(quantity[2] > 0 /\ FGreaterEq(quantity, min_size)) THEN QErr
    ELSE LET steps == Floor(FDiv(quantity, lot_size))
         IN  IF ~(steps >= 1) THEN QErr
             ELSE QOk(FMul(<<steps, 1>>, lot_size))

\* no quantization is under way
NoQz ==
    [fn |-> "none", x |-> <<0, 1>>, unit |-> <<0, 1>>, min |-> <<0, 1>>,
     stage |-> 0, once |-> QErr, twice |-> QErr]

QzIdle == qz = NoQz


\* the arguments of a quantize_price or of a quantize_size
QzInit ==
    qz \in {[NoQz EXCEPT !.fn = "price", !.x = p, !.unit = t] :
               p \in Floats, t \in Floats}
           \cup
           {[NoQz EXCEPT !.fn = "size", !.x = q, !.unit = l, !.min = mn] :
               q \in Floats, l \in Floats, mn \in Floats}

\* the function on a value, with the unit and the minimum of the inputs
Quantize(x) ==
    IF qz.fn = "price"
    THEN quantize_price(x, qz.unit)
    ELSE quantize_size(x, qz.unit, qz.min)

\* the function is applied to the inputs
QuantizeOnce ==
    /\ qz.fn # "none"
    /\ qz.stage = 0
    /\ qz' = [qz EXCEPT !.stage = 1, !.once = Quantize(qz.x)]

\* the function is applied to the value it returned
QuantizeAgain ==
    /\ qz.stage = 1
    /\ qz.once.ok
    /\ qz' = [qz EXCEPT !.stage = 2, !.twice = Quantize(qz.once.value)]

QzNext == (QuantizeOnce \/ QuantizeAgain) /\ UNCHANGED sl

(***************************************************************************)
(* Slippage of a limit order (router/selector.rs)                          *)
(*                                                                         *)
(* Prices are held in thousandths of the quote unit and quantities in      *)
(* whole base units; a value that need not be whole is the fraction        *)
(* <<n, d>> in lowest terms.                                               *)
(***************************************************************************)

\* the levels of the two sides of the book, nearest to the mid price first:
\* <<price, quantity>>
BidLevels == <<<<999, 5>>, <<998, 6>>, <<997, 7>>>>

AskLevels == <<<<1001, 5>>, <<1002, 6>>, <<1003, 7>>>>

\* the books of at most MaxLevels levels of one side
Books(levels) == {SubSeq(levels, 1, n) : n \in 0..MaxLevels}

\* f64::min
FMin(a, b) == IF a <= b THEN a ELSE b

\* the loop over the levels: <<total_cost, remaining_qty>> when it ends
RECURSIVE FillLevels(_, _, _)
FillLevels(levels, remaining_qty, total_cost) ==
    IF levels = <<>> \/ remaining_qty <= 0
    THEN <<total_cost, remaining_qty>>
    ELSE LET fill_qty == FMin(remaining_qty, Head(levels)[2])
             cost == fill_qty * Head(levels)[1]
         IN  FillLevels(Tail(levels), remaining_qty - fill_qty, total_cost + cost)

\* RouteSelector::calculate_slippage
calculate_slippage(price, quantity, is_bid, level2, tick_size) ==
    LET levels == IF is_bid THEN level2.bids ELSE level2.asks
    IN  IF levels = <<>>
        THEN Reduce(price * quantity, 100)
        ELSE LET filled == FillLevels(levels, quantity, 0)
                 remaining_qty == filled[2]
                 last_price == levels[Len(levels)][1]
                 worst_price == IF is_bid THEN last_price - tick_size
                                          ELSE last_price + tick_size
                 total_cost == IF remaining_qty > 0
                               THEN filled[1] + remaining_qty * worst_price
                               ELSE filled[1]
                 \* avg_fill_price is total_cost / quantity; the difference
                 \* with the price, over the denominator quantity
                 difference == IF is_bid THEN total_cost - price * quantity
                                         ELSE price * quantity - total_cost
                 clamped == IF difference > 0 THEN difference ELSE 0
             IN  Reduce(clamped * quantity, quantity)

\* no slippage calculation is under way
NoSl ==
    [price |-> 0, quantity |-> 0, is_bid |-> FALSE, level2 |-> [bids |-> <<>>, asks |-> <<>>],
     tick_size |-> 0, stage |-> 0, slippage |-> <<0, 1>>]

SlIdle == sl = NoSl

\* none of the pure functions is under evaluation
PureIdle == QzIdle /\ SlIdle

\* the arguments of a calculate_slippage
SlInit ==
    sl \in {[NoSl EXCEPT !.price = p, !.quantity = q, !.is_bid = b,
                         !.level2 = [bids |-> bb, asks |-> aa],
                         !.tick_size = 1, !.stage = 1] :
               p \in {1000, 1001}, q \in {5, 10, 12}, b \in BOOLEAN,
               bb \in Books(BidLevels), aa \in Books(AskLevels)}

\* the function is applied to the inputs
CalculateSlippage ==
    /\ sl.stage = 1
    /\ sl' = [sl EXCEPT !.stage = 2,
                        !.slippage = calculate_slippage(sl.price, sl.quantity, sl.is_bid,
                                                        sl.level2, sl.tick_size)]
    /\ UNCHANGED qz

SlNext == CalculateSlippage

(***************************************************************************)
(* The retry loop of submit_with_retry (router/execution.rs) on its own:   *)
(* backoff::future::retry over an ExponentialBackoff, with its clock.      *)
(***************************************************************************)

\* the errors an attempt can return: of the transport, or of the provider
AttemptErrors == {"transport", "provider"}

\* A closure that returns the provider's errors as permanent ones.
Classify_ProviderPermanent(e) == IF e = "provider" THEN "permanent" ELSE "transient"

\* result.map_err(backoff::Error::transient)
Classify(e) == "transient"

\* the clock is read up to just past the budget: later instants are all alike
Later(elapsed, d) == Min(elapsed + d, MaxElapsedTime + 1)

\* A backoff built with max_elapsed_time: None.
HasBudget_Unbounded(elapsed, interval) == TRUE

\* max_elapsed_time: Some(v): elapsed + interval <= v
HasBudget(elapsed, interval) == elapsed + interval <= MaxElapsedTime

\* get_random_value_from_interval with the default randomization_factor 0.5
RandomizedIntervals(current_interval) ==
    (current_interval - current_interval \div 2)..(current_interval + current_interval \div 2)

\* increment_current_interval: multiplied, at most max_interval
IncrementInterval(current_interval) == Min(current_interval * Multiplier, MaxInterval)

\* The Err(anyhow!("submission failed after retries: {}", e)) of the loop.
RetryError(e) == <<"submission", "failed", "after", "retries:", e>>

\* submit_with_retry has not been called.  pc, elapsed, current_interval and
\* wake_in are the loop's position, clock and backoff; the other fields
\* record what the loop did:
\*   slept      the loop has slept at least once before an attempt
\*   first_err  the error of the first attempt that failed
\*   last_err   the error of the latest attempt that failed
\*   refused    next_backoff returned None (the budget is used up)
\*   result     what submit_with_retry returned
NoRt ==
    [pc |-> "idle", elapsed |-> 0, current_interval |-> 0, wake_in |-> 0,
     slept |-> FALSE, first_err |-> "none", last_err |-> "none",
     refused |-> FALSE, result |-> <<>>]

RtIdle == retry = NoRt

\* submit_with_retry is called: the backoff is built (and reset by retry),
\* its clock starts, and the closure is called for the first attempt.
RtSubmit ==
    /\ retry.pc = "idle"
    /\ retry' = [retry EXCEPT !.pc = "attempt", !.current_interval = InitialInterval]

\* The attempt returns Ok after d units: retry returns it.
RtAttemptOk ==
    /\ retry.pc = "attempt"
    /\ \E d \in 0..MaxAttemptTime :
          retry' = [retry EXCEPT !.pc = "done", !.elapsed = Later(@, d), !.result = <<"ok">>]

\* The attempt returns Err(e) after d units.  A permanent error is returned
\* at once; for a transient one next_backoff is asked: None when the elapsed
\* time is past the budget or the randomized interval would pass it, and then
\* the error is returned; otherwise the loop sleeps for the interval.
RtAttemptErr ==
    /\ retry.pc = "attempt"
    /\ \E d \in 0..MaxAttemptTime, e \in AttemptErrors,
          random \in RandomizedIntervals(retry.current_interval) :
          LET now == Later(retry.elapsed, d)
              seen == [retry EXCEPT !.elapsed = now, !.last_err = e,
                                 !.first_err = IF @ = "none" THEN e ELSE @]
              failed == [seen EXCEPT !.pc = "done", !.result = RetryError(e)]
          IN  retry' = IF Classify(e) = "permanent"
                    THEN failed
                    ELSE IF ~HasBudget(now, 0)
                    THEN [failed EXCEPT !.refused = TRUE]
                    ELSE IF ~HasBudget(now, random)
                    THEN [failed EXCEPT !.refused = TRUE,
                                        !.current_interval = IncrementInterval(@)]
                    ELSE [seen EXCEPT !.pc = "sleeping", !.wake_in = random,
                                      !.current_interval = IncrementInterval(@)]

\* The sleep of the backoff ends: the closure is called again.
RtWake ==
    /\ retry.pc = "sleeping"
    /\ retry' = [retry EXCEPT !.pc = "attempt", !.elapsed = Later(@, retry.wake_in),
                        !.wake_in = 0, !.slept = TRUE]

RtNext == RtSubmit \/ RtAttemptOk \/ RtAttemptErr \/ RtWake

(***************************************************************************)
(* The route selector's latency estimates (router/selector.rs) and the     *)
(* handler that overrides them (router/router.rs).  The two estimates and  *)
(* the two sample rings are kept per class: "owned" is base_latency_ms and *)
(* owned_latency_samples, "shared" is shared_object_latency_ms and         *)
(* shared_latency_samples.  Samples are whole milliseconds.                *)
(***************************************************************************)

LatencyClasses == {"owned", "shared"}

\* the ring and the estimate a call with this uses_shared_objects works on
ClassOf(uses_shared_objects) == IF uses_shared_objects THEN "shared" ELSE "owned"

RECURSIVE SumSamples(_)
\* samples.iter().sum::<f64>()
SumSamples(samples) ==
    IF samples = << >> THEN 0 ELSE Head(samples) + SumSamples(Tail(samples))

RECURSIVE KeepRecent(_)
\* while samples.len() > self.max_samples { samples.pop_front(); }
KeepRecent(samples) ==
    IF Len(samples) > MaxSamples THEN KeepRecent(Tail(samples)) ELSE samples

\* An update made from the first sample on.
EnoughSamples_Any(samples) == Len(samples) >= 1

\* samples.len() >= 10
EnoughSamples(samples) == Len(samples) >= MinLatencySamples

\* (latency_alpha * recent_avg + (1.0 - latency_alpha) * current_estimate) as u64
NewEstimate(samples, current_estimate) ==
    (LatencyAlphaNum * SumSamples(samples)
       + (LatencyAlphaDen - LatencyAlphaNum) * current_estimate * Len(samples))
    \div (LatencyAlphaDen * Len(samples))

\* no record_latency call is under way
NoRec == [pc |-> "idle", class |-> "none", current_estimate |-> 0]

\* no update_latency handler is under way; done counts the finished ones
NoUpd ==
    [pc |-> "idle", base_latency_ms |-> None, shared_latency_ms |-> None,
     current_base |-> 0, current_shared |-> 0, done |-> 0]

\* no quote has been answered
NoQuote == [status |-> "none", expected_latency_ms |-> 0, uses_shared_objects |-> FALSE]

\* no call has been observed and no quote has been asked:
\*   effects       per call, the effects_time_ms of the Ok its execute returned,
\*                 until record_latency is given it
\*   observations  per call, the (latency_ms, uses_shared_objects) pairs that
\*                 record_latency appended for it
\*   quote         the answer of the latest quote
NoRr ==
    [effects |-> [t \in Calls |-> << >>],
     observations |-> [t \in Calls |-> << >>],
     quote |-> NoQuote]

\* RouteSelector::new as main calls it
LsInit ==
    /\ latency_estimate = [owned |-> BaseLatencyMs, shared |-> SharedLatencyMs]
    /\ latency_samples = [owned |-> << >>, shared |-> << >>]
    /\ rec = NoRec
    /\ upd = NoUpd
    /\ ls_count = 0
    /\ rr = NoRr

\* record_latency up to the load of the estimate: under the write lock of the
\* class's ring the sample is appended and the ring trimmed; with enough
\* samples the current estimate is loaded, otherwise the call returns.
PushSample(uses_shared_objects, latency_ms) ==
    LET class == ClassOf(uses_shared_objects)
        samples == KeepRecent(Append(latency_samples[class], latency_ms))
    IN  /\ latency_samples' = [latency_samples EXCEPT ![class] = samples]
        /\ rec' = IF EnoughSamples(samples)
                  THEN [pc |-> "loaded", class |-> class,
                        current_estimate |-> latency_estimate[class]]
                  ELSE NoRec

\* record_latency from the load on: the new estimate is computed from the
\* ring and the loaded value and stored; the lock is released.
StoreEstimate ==
    /\ rec.pc = "loaded"
    /\ latency_estimate' =
          [latency_estimate EXCEPT ![rec.class] =
              NewEstimate(latency_samples[rec.class], rec.current_estimate)]
    /\ rec' = NoRec

\* a completing execution calls record_latency
RecordLatencyStarts ==
    /\ rec.pc = "idle"
    /\ ls_count < MaxRecords
    /\ \E uses_shared_objects \in BOOLEAN, latency_ms \in Latencies :
          PushSample(uses_shared_objects, latency_ms)
    /\ ls_count' = ls_count + 1
    /\ UNCHANGED <<latency_estimate, upd, rr>>

RecordLatencyStores ==
    /\ StoreEstimate
    /\ UNCHANGED <<latency_samples, upd, ls_count, rr>>

\* POST /api/v1/latency arrives with its two optional values.
UpdateLatency ==
    /\ upd.pc = "idle"
    /\ upd.done < MaxOverrides
    /\ \E b \in {None, Some(50)}, sh \in {None, Some(70)} :
          upd' = [upd EXCEPT !.pc = "load_base", !.base_latency_ms = b,
                             !.shared_latency_ms = sh]
    /\ UNCHANGED <<latency_estimate, latency_samples, rec, ls_count, rr>>

\* get_latency_estimates: self.base_latency_ms.load(Relaxed)
UpdLoadBase ==
    /\ upd.pc = "load_base"
    /\ upd' = [upd EXCEPT !.pc = "load_shared", !.current_base = latency_estimate.owned]
    /\ UNCHANGED <<latency_estimate, latency_samples, rec, ls_count, rr>>

\* get_latency_estimates: self.shared_object_latency_ms.load(Relaxed)
UpdLoadShared ==
    /\ upd.pc = "load_shared"
    /\ upd' = [upd EXCEPT !.pc = "store_base", !.current_shared = latency_estimate.shared]
    /\ UNCHANGED <<latency_estimate, latency_samples, rec, ls_count, rr>>

\* opt.unwrap_or(current)
UnwrapOr(opt, current) == IF opt = None THEN current ELSE opt[1]

\* update_latency_estimates: self.base_latency_ms.store(base_ms, Relaxed)
UpdStoreBase ==
    /\ upd.pc = "store_base"
    /\ latency_estimate' =
          [latency_estimate EXCEPT !.owned = UnwrapOr(upd.base_latency_ms, upd.current_base)]
    /\ upd' = [upd EXCEPT !.pc = "store_shared"]
    /\ UNCHANGED <<latency_samples, rec, ls_count, rr>>

\* update_latency_estimates: self.shared_object_latency_ms.store(shared_ms, Relaxed);
\* the handler answers.
UpdStoreShared ==
    /\ upd.pc = "store_shared"
    /\ latency_estimate' =
          [latency_estimate EXCEPT !.shared = UnwrapOr(upd.shared_latency_ms, upd.current_shared)]
    /\ upd' = [upd EXCEPT !.pc = "idle", !.done = @ + 1]
    /\ UNCHANGED <<latency_samples, rec, ls_count, rr>>

LsNext ==
    \/ RecordLatencyStarts
    \/ RecordLatencyStores
    \/ UpdateLatency
    \/ UpdLoadBase
    \/ UpdLoadShared
    \/ UpdStoreBase
    \/ UpdStoreShared

(***************************************************************************)
(* The router (router/router.rs): execute_limit_order runs the pipeline of *)
(* the execution engine and hands the result to record_latency; the quote  *)
(* handler only calls select_route.                                        *)
(***************************************************************************)

\* RoutePlan::deepbook_single, the only plan select_route builds: the fields
\* the router reads.
deepbook_single(expected_latency_ms) ==
    [status |-> "ok", expected_latency_ms |-> expected_latency_ms,
     uses_shared_objects |-> TRUE]

\* anyhow::bail!("no viable routes found for order")
NoViableRoutes == [NoQuote EXCEPT !.status = "no viable routes"]

\* A select_route that also fed the adaptive loop with the latency it expects.
QuoteRoute_Recording ==
    /\ rec.pc = "idle"
    /\ ls_count < MaxRecords
    /\ PushSample(TRUE, latency_estimate.shared)
    /\ rr' = [rr EXCEPT !.quote = deepbook_single(latency_estimate.shared)]
    /\ UNCHANGED <<latency_estimate, upd, ls_count>>

\* POST /api/v1/quote: select_route evaluates the DeepBook route, whose
\* expected latency is the load of shared_object_latency_ms, and returns the
\* plan, or bails when the evaluation failed.
QuoteRoute ==
    /\ \E viable \in BOOLEAN :
          rr' = [rr EXCEPT !.quote = IF viable
                                     THEN deepbook_single(latency_estimate.shared)
                                     ELSE NoViableRoutes]
    /\ UNCHANGED <<latency_estimate, latency_samples, rec, upd, ls_count>>

\* The steps of execute_limit_order that touch neither the selector's rings
\* nor the result handed to record_latency.
RrPipeline(t) ==
    /\ \/ ExecuteOrder(t)
       \/ SelectRouteFails(t)
       \/ Execute(t)
       \/ CompileFails(t)
       \/ CompileRoute(t)
       \/ SignTransaction(t)
       \/ CheckSeenDuplicate(t)
       \/ CheckSeenFresh(t)
       \/ StartAttempt(t)
       \/ AttemptOk(t)
       \/ AttemptRetry(t)
       \/ BackoffEnds(t)
       \/ SubmitFails(t)
       \/ RecordDigest(t)
       \/ RecordEffectsTime(t)
    /\ UNCHANGED ls_vars

\* execute returns Ok(ExecutionResult { effects_time_ms, .. }).
RrUpdateStatistics(t) ==
    /\ UpdateStatistics(t)
    /\ \E effects_time_ms \in Latencies :
          rr' = [rr EXCEPT !.effects[t] = <<effects_time_ms>>]
    /\ UNCHANGED <<latency_estimate, latency_samples, rec, upd, ls_count>>

\* Ok(result) => self.selector.record_latency(result.effects_time_ms,
\* uses_shared).await: the write lock of the ring is granted and the sample
\* appended; with too few samples the call returns and the handler answers.
RrRecordLatency(t) ==
    /\ call[t].pc = "latency"
    /\ rec.pc = "idle"
    /\ rr.observations[t] = << >>
    /\ LET uses_shared == deepbook_single(latency_estimate.shared).uses_shared_objects
           latency_ms == rr.effects[t][1]
       IN  /\ PushSample(uses_shared, latency_ms)
           /\ rr' = [rr EXCEPT !.observations[t] = <<<<latency_ms, uses_shared>>>>,
                               !.effects[t] = << >>]
    /\ ls_count' = ls_count + 1
    /\ IF rec'.pc = "idle" THEN RecordLatency(t) ELSE UNCHANGED exec_vars
    /\ UNCHANGED <<latency_estimate, upd>>

\* record_latency stores the new estimate and returns; the handler answers.
RrStoreEstimate(t) ==
    /\ call[t].pc = "latency"
    /\ rr.observations[t] # << >>
    /\ StoreEstimate
    /\ RecordLatency(t)
    /\ UNCHANGED <<latency_samples, upd, ls_count, rr>>

\* The future of the request is dropped at an await; record_latency has no
\* await after the lock is granted.
RrCancel(t) ==
    /\ ~(call[t].pc = "latency" /\ rr.observations[t] # << >>)
    /\ Cancel(t)
    /\ UNCHANGED ls_vars

RrNext ==
    \/ \E t \in Calls :
          \/ RrPipeline(t)
          \/ RrUpdateStatistics(t)
          \/ RrRecordLatency(t)
          \/ RrStoreEstimate(t)
          \/ RrCancel(t)
    \/ QuoteRoute /\ UNCHANGED exec_vars

(***************************************************************************)
(* Specifications                                                          *)
(***************************************************************************)

\* One configuration of the engine, for the specifications it takes no part in.
ExecQuiet ==
    /\ ExecInit
    /\ use_grpc_execute
    /\ grpc_exec_feature
    /\ secret_key_ok

Init == ExecInit /\ AdmInit /\ CbInit /\ VsInit /\ RkInit /\ SpQuiet /\ SxInit /\ PureIdle /\ RtIdle /\ LsInit

\* The order pipeline: concurrent HTTP order requests.  No handler calls
\* acquire(), so the admission state stays as constructed.
Next == ExecNext /\ UNCHANGED not_exec_vars

Spec == Init /\ [][Next]_vars

\* The order pipeline observed by concurrent get_stats calls.
StatsNext == (ExecNext \/ GetStats) /\ UNCHANGED not_exec_vars

StatsSpec == Init /\ [][StatsNext]_vars

\* The admission control under concurrent acquire() calls.
AdmSpecInit == ExecQuiet /\ AdmInit /\ CbInit /\ VsInit /\ RkInit /\ SpQuiet /\ SxInit /\ PureIdle /\ RtIdle /\ LsInit

AdmSpecNext == AdmNext /\ UNCHANGED not_adm_vars

AdmSpec == AdmSpecInit /\ [][AdmSpecNext]_vars

\* The admission control when time advances, every task that can run is
\* eventually run, and every permit is eventually dropped.
AdmFairness ==
    /\ SF_vars(Tick /\ UNCHANGED not_adm_vars)
    /\ \A c \in Callers :
          /\ WF_vars(PollRateGate(c) /\ UNCHANGED not_adm_vars)
          /\ WF_vars(AcquireOwned(c) /\ UNCHANGED not_adm_vars)
          /\ WF_vars(ReturnPermit(c) /\ UNCHANGED not_adm_vars)
          /\ WF_vars(DropPermit(c) /\ UNCHANGED not_adm_vars)

AdmFairSpec == AdmSpecInit /\ [][AdmSpecNext]_vars /\ AdmFairness

\* The circuit breakers under any sequence of is_open and record calls.
CbSpecNext == CbNext /\ UNCHANGED not_cb_vars

CbSpec == Init /\ [][CbSpecNext]_vars

\* The validator selector under any sequence of calls of its methods.
VsSpecNext == VsNext /\ UNCHANGED not_vs_vars

VsSpec == Init /\ [][VsSpecNext]_vars

\* The order pipeline with its validator selector.
RkSpecInit == ExecQuiet /\ AdmInit /\ CbInit /\ RkSelectorInit /\ RkInit /\ SpQuiet /\ SxInit /\ PureIdle /\ RtIdle /\ LsInit

RkSpecNext == RkNext /\ UNCHANGED <<adm_vars, cb_vars, sp_vars, sx_vars, pure_vars, rt_vars, ls_vars>>

RkSpec == RkSpecInit /\ [][RkSpecNext]_vars

\* The sponsorship manager alone.
SpSpecNext == SpNext /\ UNCHANGED not_sp_vars

SpSpecInit == ExecQuiet /\ AdmInit /\ CbInit /\ VsInit /\ RkInit /\ SpInit /\ SxInit /\ PureIdle /\ RtIdle /\ LsInit

SpSpec == SpSpecInit /\ [][SpSpecNext]_vars

\* The quantization functions on the bounded inputs.
QzSpecInit ==
    ExecQuiet /\ AdmInit /\ CbInit /\ VsInit /\ RkInit /\ SpQuiet /\ SxInit /\ QzInit /\ SlIdle /\ RtIdle /\ LsInit

QzSpecNext == QzNext /\ UNCHANGED not_pure_vars

QzSpec == QzSpecInit /\ [][QzSpecNext]_vars

\* The slippage calculation on the bounded inputs.
SlSpecInit ==
    ExecQuiet /\ AdmInit /\ CbInit /\ VsInit /\ RkInit /\ SpQuiet /\ SxInit /\ QzIdle /\ SlInit /\ RtIdle /\ LsInit

SlSpecNext == SlNext /\ UNCHANGED not_pure_vars

SlSpec == SlSpecInit /\ [][SlSpecNext]_vars

\* The engine with its sponsorship manager.
SxSpecInit ==
    ExecQuiet /\ AdmInit /\ CbInit /\ VsInit /\ RkInit /\ SxSponsorInit /\ SxInit /\ PureIdle /\ RtIdle /\ LsInit

SxSpecNext == SxNext /\ UNCHANGED <<adm_vars, cb_vars, vs_vars, rk_vars, pure_vars, rt_vars, ls_vars>>

SxSpec == SxSpecInit /\ [][SxSpecNext]_vars

\* The latency estimates under record_latency calls and latency overrides
\* that run on different threads.
LsSpecNext == LsNext /\ UNCHANGED not_ls_vars

LsSpec == AdmSpecInit /\ [][LsSpecNext]_vars

\* The router: concurrent order requests whose results feed the adaptive
\* loop, and quote requests.
RrSpecNext == RrNext /\ UNCHANGED <<adm_vars, cb_vars, vs_vars, rk_vars, sp_vars, sx_vars, pure_vars, rt_vars>>

RrSpec == AdmSpecInit /\ [][RrSpecNext]_vars

\* The retry loop of one submission.
RtSpecNext == RtNext /\ UNCHANGED not_rt_vars

RtSpec == AdmSpecInit /\ [][RtSpecNext]_vars

\* The retry loop when every attempt returns and every sleep ends.
RtFairness ==
    /\ WF_vars((RtAttemptOk \/ RtAttemptErr) /\ UNCHANGED not_rt_vars)
    /\ WF_vars(RtWake /\ UNCHANGED not_rt_vars)

RtFairSpec == AdmSpecInit /\ [][RtSpecNext]_vars /\ RtFairness

(***************************************************************************)
(* Properties of the execution engine                                      *)
(***************************************************************************)

\* The call is inside step 5 (submit_with_retry).
InSubmit(t) == call[t].pc \in {"submitting", "inflight", "responded", "backoff"}

\* The call has returned from execute_with_sponsorship with an error.
ExecuteErrors == {"compile", "sign", "duplicate", "submit"}

\* msg contains the words "already executed"
ContainsAlreadyExecuted(msg) ==
    \E i \in 1..(Len(msg) - 1) : msg[i] = "already" /\ msg[i + 1] = "executed:"

\* C1: for every digest, at most one call whose bytes hash to it ever reaches
\* the submit step.
C1_AtMostOneSubmitPerDigest ==
    \A t, u \in Calls :
        (t # u /\ call[t].submitted /\ call[u].submitted)
            => compute_digest(call[t].tx) # compute_digest(call[u].tx)

\* C2: a call that entered execute after a call with the same bytes had
\* returned success never reaches the submit step (it makes no attempt), and
\* when it returns, it returns the error whose text contains "already executed".
C2_DuplicateAfterSuccess ==
    \A t \in Calls :
        call[t].after_ok =>
            /\ ~call[t].submitted
            /\ call[t].attempts = 0
            /\ ~InSubmit(t)
            /\ call[t].pc = "done" =>
                  /\ call[t].result = "duplicate"
                  /\ ContainsAlreadyExecuted(ErrorMessage(call[t].result))

\* C2 witness: a call ran after a success with the same bytes and was refused.
C2_Witness ==
    \E t \in Calls :
        /\ call[t].after_ok
        /\ call[t].pc = "done"
        /\ call[t].result = "duplicate"

\* C3: an HTTP order request holds an admission permit from before route
\* selection until its submission is over.
C3_SubmitHoldsPermit ==
    \A t \in Calls :
        (call[t].pc \in {"selecting", "compiling", "signing", "checking"}
            \/ InSubmit(t))
            => call[t].permit

\* C4: every ExecutionStats value get_stats returns has
\* total >= successful >= 0 and successful + failed <= total.
C4_StatsConsistent ==
    /\ stats.total_executions >= stats.successful_executions
    /\ stats.successful_executions >= 0
    /\ stats.successful_executions + stats.failed_executions
          <= stats.total_executions

\* C5: every call of execute_with_sponsorship increments total_executions
\* once; returning success it increments successful_executions once and
\* failed_executions never; returning any error it increments
\* failed_executions once.
C5_CountersPerCall ==
    \A t \in Calls :
        /\ call[t].pc \notin {"idle", "selecting"} /\ call[t].result # "select"
              => call[t].incs.total = 1
        /\ call[t].result = "ok"
              => call[t].incs.successful = 1 /\ call[t].incs.failed = 0
        /\ call[t].result \in ExecuteErrors
              => call[t].incs.failed = 1 /\ call[t].incs.successful = 0

\* C25: when the future of a call is dropped while a submission attempt is
\* under way (the transaction is sent, the response not yet processed), the
\* call increments failed_executions exactly once, so that the calls that
\* are over are all counted as successful or failed.
C25_CancelAfterSubmitCounted ==
    [][\A t \in Calls :
          (call[t].pc = "inflight" /\ call'[t].pc = "cancelled") =>
              /\ call'[t].incs.failed = call[t].incs.failed + 1
              /\ failed_executions' = failed_executions + 1]_vars

\* The suspension points of a call before its digest is inserted.
BeforeInsert == {"selecting", "compiling", "checking", "inflight", "backoff", "recording"}

\* C26: a call whose future is dropped at a suspension point before its
\* digest is inserted leaves no trace: it has changed neither SeenDigests
\* nor any of the execution counters.
C26_CancelLeavesNoTrace ==
    [][\A t \in Calls :
          (call[t].pc \in BeforeInsert /\ call'[t].pc = "cancelled") =>
              /\ call'[t].incs = NoIncs
              /\ seen_digests' = seen_digests
              /\ counters' = counters]_vars

\* C28: when an attempt is accepted by the endpoint (the transport call has
\* returned a successful response), the retry loop ends in the Ok state: the
\* call goes on to record its digest, it neither sleeps for another attempt
\* nor returns an error.
C28_AcceptedAttemptEndsOk ==
    [][\A t \in Calls :
          (call[t].pc = "responded" /\ call'[t] # call[t]) =>
              call'[t].pc = "recording"]_vars

\* C29: a call that returns success has inserted its digest after its
\* submit returned and before it returns: while a call is the only one with
\* its bytes and is still submitting, its digest is absent; from the insert
\* on, and so when success is returned, it is present; and a call with the
\* same bytes that started after that return finds it present.
C29_DigestRecordedBeforeReturn ==
    \A t \in Calls :
        /\ (InSubmit(t) /\ \A u \in Calls \ {t} : call[u].tx # call[t].tx)
              => compute_digest(call[t].tx) \notin seen_digests
        /\ call[t].pc \in {"ranking", "counting", "latency"}
              => compute_digest(call[t].tx) \in seen_digests
        /\ call[t].result = "ok"
              => compute_digest(call[t].tx) \in seen_digests
        /\ call[t].after_ok
              => compute_digest(call[t].tx) \in seen_digests

\* C29 witness: a call has returned success, and a call with the same bytes
\* that started afterwards has found the digest.
C29_Witness ==
    \E t, u \in Calls :
        /\ call[t].result = "ok"
        /\ call[t].pc = "done"
        /\ call[u].after_ok
        /\ call[u].tx = call[t].tx
        /\ call[u].result = "duplicate"
        /\ compute_digest(call[t].tx) \in seen_digests

\* C30: SeenDigests never shrinks; a digest enters it only from a call whose
\* submit has returned success (the call is at step 6 with these bytes); and
\* the step in which a call returns an error leaves it unchanged.
C30_SeenGrowsBySuccessOnly ==
    [][/\ seen_digests \subseteq seen_digests'
       /\ \A d \in seen_digests' \ seen_digests :
             \E t \in Calls : /\ call[t].pc = "recording"
                               /\ compute_digest(call[t].tx) = d
       /\ \A t \in Calls :
             (call[t].result = "none" /\ call'[t].result \in ExecuteErrors)
                 => seen_digests' = seen_digests]_vars

\* C30 witness: one call has succeeded and its digest is recorded, another
\* has failed in its submission and its digest is not.
C30_Witness ==
    \E t, u \in Calls :
        /\ call[t].result = "ok"
        /\ compute_digest(call[t].tx) \in seen_digests
        /\ call[u].result = "submit"
        /\ compute_digest(call[u].tx) \notin seen_digests

(***************************************************************************)
(* Properties of the admission control                                     *)
(***************************************************************************)

\* The callers that hold an AdmissionPermit.
Holders == {c \in Callers : adm[c].pc = "held"}

\* The waiters a released permit was assigned to and that were not polled yet.
Granted == {c \in Callers : adm[c].pc = "granted"}

\* The callers inside the rate loop.
AtRateGate(c) == adm[c].pc \in {"rate", "sleeping"}

\* The callers waiting for a permit of the semaphore.
AtConcurrencyGate(c) == adm[c].pc \in {"sem", "queued", "granted"}

\* C6: the rate limiter never records more than rate_per_sec timestamps, so
\* no trailing 1-second window holds more than rate_per_sec of them.
C6_TimestampsWithinRate ==
    /\ Len(timestamps) <= RatePerSec
    /\ Len(SelectSeq(timestamps, LAMBDA a : a <= WindowMs)) <= RatePerSec

\* C6 witness: the window is full and a caller was refused and sleeps.
C6_Witness ==
    /\ Len(timestamps) = RatePerSec
    /\ \E c \in Callers : adm[c].pc = "sleeping"

\* C7 as claimed: counting an admission when acquire() returns its permit, no
\* 1-second window (here even the half-open one) has more than rate_per_sec.
C7_PermitReturnsWithinRate ==
    Len(SelectSeq(grant_ages, LAMBDA a : a < WindowMs)) <= RatePerSec

\* C7 amended: counting an admission when the caller passes the rate gate, no
\* closed 1-second window has more than rate_per_sec admissions, whatever
\* max_inflight is and whenever permits are released.
C7_RateGatePassesWithinRate ==
    Len(pass_ages) <= RatePerSec

\* C7 witness: rate_per_sec callers passed the rate gate within one window,
\* a further caller was refused and sleeps, and the concurrency gate is
\* saturated with a caller waiting in its queue.
C7_Witness ==
    /\ Len(pass_ages) = RatePerSec
    /\ \E c \in Callers : adm[c].pc = "sleeping"
    /\ Cardinality(Holders) = MaxInflight
    /\ sem_queue # << >>

\* C8: at most max_inflight permits are live, and permits are conserved: one
\* per admitted request, one back per drop.
C8_PermitsConserved ==
    /\ Cardinality(Holders) <= MaxInflight
    /\ permits >= 0
    /\ permits + Cardinality(Granted) + Cardinality(Holders) = MaxInflight

\* C8 witness: a permit was dropped and handed out again, every permit is
\* held and a caller waits in the queue.
C8_Witness ==
    /\ Cardinality(Holders) = MaxInflight
    /\ Len(grant_ages) > MaxInflight
    /\ sem_queue # << >>

\* Time advances: the clock ticks again and again.
TimeAdvances == []<><<Tick /\ UNCHANGED not_adm_vars>>_vars

\* C9: when time advances, every acquire() call eventually returns its permit
\* (or ends, its future dropped).
C9_AcquireReturns ==
    TimeAdvances =>
        \A c \in Callers :
            (AtRateGate(c) \/ AtConcurrencyGate(c))
                ~> ~(AtRateGate(c) \/ AtConcurrencyGate(c))

\* C10: each gate is starvation-free: when time advances, a caller in the rate
\* loop eventually leaves it, and a caller waiting for a permit eventually
\* gets one.
C10_StarvationFree ==
    TimeAdvances =>
        /\ \A c \in Callers : AtRateGate(c) ~> ~AtRateGate(c)
        /\ \A c \in Callers : AtConcurrencyGate(c) ~> ~AtConcurrencyGate(c)

(***************************************************************************)
(* Properties of the circuit breakers                                      *)
(***************************************************************************)

\* C11: an is_open call that immediately follows a record call which left
\* the class's window with at least min_samples outcomes and a failure rate
\* at or above the threshold returns true.
C11_TrippedIsOpen ==
    (cb_ret.class # 0 /\ cb_ret.after_record
        /\ Tripped(breakers[cb_ret.class].window))
        => cb_ret.value

\* C12: while the open period a record call started has time left, is_open
\* returns true; the first is_open call at or after its end returns false.
C12_OpenForCooldown ==
    cb_ret.class # 0 =>
        /\ cb_ret.period > 0 => cb_ret.value
        /\ cb_ret.period = 0 => ~cb_ret.value

\* C12 witness: outcomes were recorded while the breaker was open, the
\* cooldown ran out, and is_open answered false.
C12_Witness ==
    /\ cb_ret.class # 0
    /\ cb_ret.period = 0
    /\ ~cb_ret.value
    /\ Len(breakers[cb_ret.class].window) = MaxWindow
    /\ ~Tripped(breakers[cb_ret.class].window)

(***************************************************************************)
(* Properties of the validator selector                                    *)
(***************************************************************************)

\* The endpoints that are healthy.
HealthyEndpoints ==
    {e \in Endpoints : validators[e].registered /\ validators[e].healthy}

\* The endpoints that are eligible: healthy, with min_observations
\* observations or more, updated less than max_staleness_secs ago.
EligibleEndpoints ==
    {e \in HealthyEndpoints :
        /\ validators[e].observations >= MinObservations
        /\ validators[e].last_update < MaxStalenessSecs}

\* The endpoint r is one of S and none of S has a smaller EWMA.
SmallestOf(r, S) ==
    /\ r \in S
    /\ \A f \in S : ~RatLess(validators[f].effects_ewma_ms,
                             validators[r].effects_ewma_ms)

\* C13: select_best returns an eligible endpoint with the smallest EWMA;
\* without an eligible one, a healthy endpoint with the smallest EWMA;
\* without a healthy one, none.
C13_SelectBest ==
    vs_ret.called =>
        IF EligibleEndpoints # {} THEN SmallestOf(vs_ret.value, EligibleEndpoints)
        ELSE IF HealthyEndpoints # {} THEN SmallestOf(vs_ret.value, HealthyEndpoints)
        ELSE vs_ret.value = NoEndpoint

\* C13 witness: select_best returned the eligible endpoint although a
\* healthy endpoint that is stale has the smaller EWMA.
C13_Witness ==
    /\ vs_ret.called
    /\ vs_ret.value \in EligibleEndpoints
    /\ \E f \in HealthyEndpoints \ EligibleEndpoints :
          /\ validators[f].last_update >= MaxStalenessSecs
          /\ validators[f].observations >= MinObservations
          /\ RatLess(validators[f].effects_ewma_ms,
                     validators[vs_ret.value].effects_ewma_ms)

\* The statistics mark_unhealthy and mark_healthy must leave alone.
KeptStats(st) == <<st.registered, st.effects_ewma_ms, st.observations, st.last_update>>

\* C15: select_best never returns an endpoint that was marked unhealthy and
\* not marked healthy since, and mark_unhealthy / mark_healthy change nothing
\* but the health flag.
C15_UnhealthyExcluded ==
    /\ [](vs_ret.called => vs_ret.value \notin vs_marked)
    /\ [][(\E e \in Endpoints : VsMarkUnhealthy(e) \/ VsMarkHealthy(e))
            => \A f \in Endpoints :
                  KeptStats(validators'[f]) = KeptStats(validators[f])]_vars

\* C15 witness: an endpoint marked unhealthy has the smallest EWMA and is
\* otherwise eligible, and select_best returned another endpoint.
C15_Witness ==
    /\ vs_ret.called
    /\ vs_ret.value # NoEndpoint
    /\ \E e \in vs_marked :
          /\ validators[e].observations >= MinObservations
          /\ validators[e].last_update < MaxStalenessSecs
          /\ RatLess(validators[e].effects_ewma_ms,
                     validators[vs_ret.value].effects_ewma_ms)

RECURSIVE Pow(_, _)
Pow(b, k) == IF k = 0 THEN 1 ELSE b * Pow(b, k - 1)

\* The sum over i in from..n of
\* alpha * (1 - alpha)^(n - i) * x_i, times AlphaDen^(n - 1).
RECURSIVE TailSum(_, _)
TailSum(xs, from) ==
    IF from > Len(xs) THEN 0
    ELSE AlphaNum * Pow(AlphaDen - AlphaNum, Len(xs) - from)
            * Pow(AlphaDen, from - 2) * xs[from]
         + TailSum(xs, from + 1)

\* (1 - alpha)^(n-1) * x_1 + sum over i >= 2 of alpha * (1 - alpha)^(n-i) * x_i
ClosedForm(xs) ==
    <<Pow(AlphaDen - AlphaNum, Len(xs) - 1) * xs[1] + TailSum(xs, 2),
      Pow(AlphaDen, Len(xs) - 1)>>

C14_NoneWhenNoneEligible ==
    (rk_ret.called /\ ~rk_ret.eligible) =>
        /\ rk_ret.value = NoEndpoint
        /\ call[rk_ret.by].submitted

\* C14 amended: the select_best call of the engine returns none exactly when
\* no endpoint is healthy, and whatever it returns the calling request had
\* submitted through the configured client and recorded its digest before.
C14_SubmitIndependentOfRanker ==
    rk_ret.called =>
        /\ (rk_ret.value = NoEndpoint) <=> ~rk_ret.healthy
        /\ call[rk_ret.by].submitted
        /\ compute_digest(call[rk_ret.by].tx) \in seen_digests
        /\ call[rk_ret.by].pc \in {"counting", "latency", "done", "cancelled"}

\* C14 witness: no endpoint was healthy although one is registered, the
\* ranker returned none, and the request was answered with success.
C14_Witness ==
    /\ rk_ret.called
    /\ rk_ret.value = NoEndpoint
    /\ \E e \in Endpoints : validators[e].registered
    /\ call[rk_ret.by].pc = "done"
    /\ call[rk_ret.by].result = "ok"

\* C33: the effects time of a successful submission is recorded against the
\* endpoint that served it, whatever endpoints are registered and whatever
\* the state of the ranker: step 7 names the serving endpoint, and no
\* observation is recorded for any other endpoint.
C33_RecordedForServingEndpoint ==
    /\ rk_ret.called => rk_ret.value = ServingEndpoint
    /\ \A e \in Endpoints \ {ServingEndpoint} : vs_obs[e] = << >>

(***************************************************************************)
(* Properties of the sponsorship manager                                   *)
(***************************************************************************)

\* C17: the user's budget never shows spent above total between operations,
\* whatever sequence of can_sponsor, build_and_sign_sponsored_transaction and
\* set_user_budget calls has run.
C17_SpentWithinTotal ==
    user_budget.present => user_budget.spent <= user_budget.total_budget

\* the budget's window had passed when the last call started
WasElapsed ==
    user_budget.has_window /\ sp_ret.since_reset_before >= BudgetWindowSecs

\* the spent amount the admission check of the last call evaluated
SpentEvaluated == IF WasElapsed THEN 0 ELSE sp_ret.spent_before

\* C18: a sponsored transaction the engine has built and co-signed has charged
\* the user once: spent is up by the gas, tx_count by one, gas_spent by the gas.
C18_EngineChargesOnce ==
    (sp_ret.op = "execute_with_sponsorship" /\ sp_ret.ret = "sponsored") =>
        /\ user_budget.present =>
              user_budget.spent = SpentEvaluated + sp_ret.gas
        /\ abuse_metrics.tx_count = sp_ret.tx_count_before + 1
        /\ abuse_metrics.gas_spent = sp_ret.gas_spent_before + sp_ret.gas

\* the right-hand side of C19 for the last call; can_sponsor changes neither
\* the limits of the budget, nor the abuse counters, nor the gas coins
AdmissionExpected ==
    /\ SpentEvaluated + sp_ret.gas <= user_budget.total_budget
    /\ sp_ret.gas <= user_budget.per_tx_limit
    /\ \/ abuse_metrics.since_start >= AbuseWindowSecs
       \/ /\ abuse_metrics.tx_count <= MaxTxPerWindow
          /\ abuse_metrics.gas_spent <= MaxGasPerWindow
    /\ gas_coins >= 1

\* C19: for a user with a budget, can_sponsor returns true exactly when the
\* budget (reset if its window has expired) covers the gas within the total
\* and the per-transaction limit, the abuse counters pass (or their window
\* has expired) and a sponsor gas coin is registered.
C19_CanSponsorIff ==
    (sp_ret.op = "can_sponsor" /\ user_budget.present) =>
        (sp_ret.ret = "true" <=> AdmissionExpected)

\* C20: an admission check made when the budget's window has passed since the
\* last reset evaluates the budget with spent = 0 and restarts the window,
\* whatever was spent before.
C20_ExpiredWindowResets ==
    (/\ sp_ret.op \in {"can_sponsor", "execute_with_sponsorship"}
     /\ user_budget.present
     /\ WasElapsed) =>
        /\ user_budget.spent = 0
        /\ user_budget.since_reset = 0
        /\ sp_ret.budget_ret =
              IF /\ sp_ret.gas <= user_budget.per_tx_limit
                 /\ sp_ret.gas <= user_budget.total_budget
              THEN "true" ELSE "false"

\* C20 witness: an admission after the window has passed that the budget
\* admits only because what was spent before no longer counts
C20_Witness ==
    /\ sp_ret.op = "can_sponsor"
    /\ user_budget.present
    /\ WasElapsed
    /\ sp_ret.spent_before + sp_ret.gas > user_budget.total_budget
    /\ sp_ret.gas > 0
    /\ sp_ret.budget_ret = "true"
    /\ sp_ret.ret = "true"

\* C27: the sum spent + amount of an admission check stays within the 64-bit
\* range: Budget::can_spend does not panic, and what it returns is the
\* comparison of the sum of the two numbers as unbounded integers with the
\* total budget.
C27_ArithmeticInRange ==
    (/\ sp_ret.op = "can_sponsor"
     /\ user_budget.present
     /\ sp_ret.gas <= user_budget.per_tx_limit) =>
        /\ sp_ret.budget_ret # "panic"
        /\ ~Overflows(SpentEvaluated, sp_ret.gas)
        /\ sp_ret.budget_ret = "true" <=>
               SpentEvaluated + sp_ret.gas <= user_budget.total_budget

(***************************************************************************)
(* Properties of the engine with its sponsorship manager                   *)
(***************************************************************************)

\* C21: a call whose sponsorship can_sponsor refused does not end with an
\* error of the refusal: it goes on with the self-paid transaction of the
\* same plan, which is signed by the user alone and submitted like any other.
C21_RefusalFallsBack ==
    \A t \in Calls :
        sx[t].refused # "none" =>
            /\ ~sx[t].is_sponsored
            /\ call[t].result \in {"none", "compile", "duplicate", "submit", "ok"}
            /\ call[t].pc \notin {"idle", "compiling", "signing", "done"} =>
                  sx[t].signatures = {"user"}
            /\ call[t].submitted => sx[t].signatures = {"user"}

\* C21 witness: calls refused for the budget, for the abuse limit and for
\* the missing gas coin exist, and one of them was submitted and returned Ok.
C21_Witness ==
    \E t \in Calls :
        /\ sx[t].refused \in {"budget", "abuse", "coins"}
        /\ call[t].submitted
        /\ call[t].result = "ok"
        /\ sx[t].signatures = {"user"}
        /\ compute_digest(call[t].tx) \in seen_digests

(***************************************************************************)
(* Properties of the quantization                                          *)
(***************************************************************************)

\* a / b is a positive integer
IsPositiveMultiple(a, b) ==
    /\ a[1] > 0
    /\ (a[1] * b[2]) % (a[2] * b[1]) = 0

\* C22: every Ok value of quantize_price is a positive integer multiple of
\* the tick, and every Ok value of quantize_size is a positive integer
\* multiple of the lot and at least the minimum size.
C22_QuantizedOnGrid ==
    (qz.stage >= 1 /\ qz.once.ok) =>
        /\ IsPositiveMultiple(qz.once.value, qz.unit)
        /\ qz.fn = "size" => FGreaterEq(qz.once.value, qz.min)

\* C23: quantizing a quantized value with the same parameters returns Ok
\* with the same value.
C23_QuantizeIdempotent ==
    qz.stage = 2 => (qz.twice.ok /\ qz.twice.value = qz.once.value)

(***************************************************************************)
(* Properties of the slippage calculation                                  *)
(***************************************************************************)

RECURSIVE Depth(_)
Depth(levels) == IF levels = <<>> THEN 0 ELSE Head(levels)[2] + Depth(Tail(levels))

\* the side of the book that opposes the order
OpposingSide == IF sl.is_bid THEN sl.level2.asks ELSE sl.level2.bids

\* |average fill price - price| * quantity over the opposing side
OpposingSlippage ==
    LET total_cost == FillLevels(OpposingSide, sl.quantity, 0)[1]
        difference == total_cost - sl.price * sl.quantity
    IN  Reduce((IF difference >= 0 THEN difference ELSE -difference) * sl.quantity,
               sl.quantity)

\* C24: the slippage of an order that the opposing side of the book can
\* fill is |average fill price - price| * quantity of the walk over that
\* side (a bid walks the asks, an ask walks the bids); a bid of 10 at 1.000
\* against asks (1.001, 5), (1.002, 6) has slippage 0.015.
C24_SlippageWalksOpposingSide ==
    (sl.stage = 2 /\ Depth(OpposingSide) >= sl.quantity) =>
        sl.slippage = OpposingSlippage

(***************************************************************************)
(* Properties of the retry loop                                            *)
(***************************************************************************)

\* the loop is running: an attempt is under way or the loop sleeps
RtRunning == retry.pc \in {"attempt", "sleeping"}

\* C31: when every attempt returns, submit_with_retry returns: a running
\* loop ends, and when its attempts have all failed it ends with an error
\* once the elapsed budget is used up.
C31_RetryTerminates ==
    /\ RtRunning ~> retry.pc = "done"
    /\ [](retry.pc = "done" /\ retry.result # <<"ok">> => retry.refused)

\* C31 witness: the loop has slept, and has ended with an error when the
\* budget was used up.
C31_Witness ==
    /\ retry.pc = "done"
    /\ retry.slept
    /\ retry.refused
    /\ retry.result = RetryError(retry.last_err)

\* C32: every error of an attempt is retried after a backoff; the caller
\* sees an error only when the budget is used up, and it is the error of
\* the last attempt.
C32_ErrorsAreTransient ==
    /\ retry.pc = "done" /\ retry.result # <<"ok">> =>
          /\ retry.refused
          /\ retry.result = RetryError(retry.last_err)
    /\ retry.pc = "sleeping" => retry.last_err \in AttemptErrors /\ retry.wake_in >= 1
    /\ retry.last_err # "none" => retry.pc \in {"sleeping", "attempt", "done"}
    /\ (retry.last_err # "none" /\ retry.pc = "attempt") => retry.slept

\* C32 witness: a first attempt failed with one error and was retried, the
\* last failed with another, and that one is reported.
C32_Witness ==
    /\ retry.pc = "done"
    /\ retry.slept
    /\ retry.first_err = "provider"
    /\ retry.last_err = "transport"
    /\ retry.result = RetryError("transport")

(***************************************************************************)
(* Properties of the route selector's latency estimates                    *)
(***************************************************************************)

\* the class that is not c
OtherClass(c) == IF c = "owned" THEN "shared" ELSE "owned"

\* alpha * average(samples) + (1 - alpha) * old, truncated to an integer
TruncatedEwma(samples, old) ==
    LET average == Reduce(SumSamples(samples), Len(samples))
        \* alpha * average + (1 - alpha) * old over the common denominator
        weighted == Reduce(LatencyAlphaNum * average[1]
                             + (LatencyAlphaDen - LatencyAlphaNum) * old * average[2],
                           LatencyAlphaDen * average[2])
    IN  Floor(weighted)

\* C35: a record_latency call appends to the ring of its class alone and
\* stores an estimate only when that ring holds the minimum number of samples
\* after the append: the estimate of that class alone, set to alpha * average
\* of the ring + (1 - alpha) * the old estimate, truncated; and no ring ever
\* holds more than max_samples samples.
C35_RecordLatencyUpdates ==
    [][/\ \A c \in LatencyClasses : Len(latency_samples'[c]) <= MaxSamples
       /\ ls_count' # ls_count =>
             \E c \in LatencyClasses :
                /\ latency_samples'[OtherClass(c)] = latency_samples[OtherClass(c)]
                /\ Len(latency_samples'[c]) >= 1
                /\ latency_estimate' = latency_estimate
                /\ rec'.pc = "loaded" <=> Len(latency_samples'[c]) >= MinLatencySamples
                /\ rec'.pc = "loaded" => rec'.class = c
       /\ (rec.pc = "loaded" /\ rec'.pc = "idle") =>
             /\ Len(latency_samples[rec.class]) >= MinLatencySamples
             /\ latency_estimate'[rec.class] =
                   TruncatedEwma(latency_samples[rec.class], rec.current_estimate)
             /\ latency_estimate'[OtherClass(rec.class)] =
                   latency_estimate[OtherClass(rec.class)]
             /\ latency_samples' = latency_samples]_vars

\* C35 witness: with no override, the shared ring is full after more calls
\* than it holds and the shared estimate has moved, while the owned ring is
\* empty and the owned estimate is the initial one.
C35_Witness ==
    /\ upd = NoUpd
    /\ rec.pc = "idle"
    /\ ls_count > MaxSamples
    /\ Len(latency_samples.shared) = MaxSamples
    /\ latency_estimate.shared # SharedLatencyMs
    /\ latency_samples.owned = << >>
    /\ latency_estimate.owned = BaseLatencyMs

\* C37: an override that supplies only one of the two values leaves the
\* other estimate as it is: the store of the value not supplied does not
\* change the estimate, whatever record_latency calls ran meanwhile.
C37_OverrideKeepsOtherEstimate ==
    [][/\ (upd.pc = "store_base" /\ upd'.pc = "store_shared"
             /\ upd.base_latency_ms = None)
          => latency_estimate'.owned = latency_estimate.owned
       /\ (upd.pc = "store_shared" /\ upd'.pc = "idle"
             /\ upd.shared_latency_ms = None)
          => latency_estimate'.shared = latency_estimate.shared]_vars

\* C34: the selector gets exactly one observation, made of the effects time
\* and the executed plan's uses-shared flag, for every execution that
\* returned success, and none for an execution that failed.
C34_OneObservationPerSuccess ==
    \A t \in Calls :
       /\ Len(rr.observations[t]) <= 1
       /\ call[t].result # "ok" => rr.observations[t] = << >>
       /\ call[t].pc = "latency" /\ rr.observations[t] # << >> =>
              /\ rr.observations[t][1][2]
              /\ rr.observations[t][1][1] = latency_samples.shared[Len(latency_samples.shared)]
       /\ (call[t].result = "ok" /\ call[t].pc \in {"done", "cancelled"}) =>
              /\ Len(rr.observations[t]) = 1
              /\ rr.effects[t] = << >>

\* the step answers a quote
IsQuoteStep == rr'.quote # rr.quote

\* C36: a quote request, answered with a plan or with "no viable routes",
\* leaves the latency estimates, the sample rings, the execution counters,
\* SeenDigests, the endpoint table and the sponsorship state as they were.
C36_QuoteHasNoSideEffect ==
    [][IsQuoteStep =>
          /\ rr'.quote.status \in {"ok", "no viable routes"}
          /\ rr'.quote.status = "ok" =>
                 rr'.quote.expected_latency_ms = latency_estimate.shared
          /\ UNCHANGED <<latency_estimate, latency_samples, rec, upd, ls_count>>
          /\ rr'.observations = rr.observations
          /\ UNCHANGED <<exec_vars, vs_vars, rk_vars, sp_vars, sx_vars>>]_vars

C36_Witness ==
    /\ rr.quote.status = "no viable routes"
    /\ successful_executions = NumCalls
    /\ latency_estimate.shared # SharedLatencyMs
    /\ Len(latency_samples.shared) = NumCalls

\* C38: a build_and_sign_sponsored_transaction that follows a can_sponsor
\* that returned true, from counters within the limits, leaves the number of
\* transactions recorded in the abuse window at most max_tx_per_window and
\* the gas recorded at most max_gas_per_window.
C38_AdmittedStaysWithinLimits ==
    [][(/\ sp_ret.op = "can_sponsor"
        /\ sp_ret.ret = "true"
        /\ sp_ret.tx_count_before <= MaxTxPerWindow
        /\ sp_ret.gas_spent_before <= MaxGasPerWindow
        /\ sp_ret'.op = "build_and_sign"
        /\ sp_ret'.ret = "ok")
       => /\ abuse_metrics'.tx_count <= MaxTxPerWindow
          /\ abuse_metrics'.gas_spent <= MaxGasPerWindow]_vars

\* the abuse counters pass: the window has run out, or both are within limits
WithinAbuseLimits ==
    \/ abuse_metrics.since_start >= AbuseWindowSecs
    \/ abuse_metrics.tx_count <= MaxTxPerWindow /\ abuse_metrics.gas_spent <= MaxGasPerWindow

\* C39: for a user with no budget entry, can_sponsor asks no budget and no
\* per-transaction limit, returns true exactly when the abuse counters pass
\* and a gas coin is registered, and record_spending counts the transaction
\* in the abuse metrics only and creates no budget entry.
C39_NoBudgetEntry ==
    [][~user_budget.present =>
          /\ sp_ret'.op = "can_sponsor" =>
                 /\ sp_ret'.budget_ret = "none"
                 /\ sp_ret'.ret = IF WithinAbuseLimits /\ gas_coins >= 1
                                  THEN "true" ELSE "false"
                 /\ user_budget' = NoBudget
          /\ sp_ret'.op = "build_and_sign" =>
                 /\ user_budget' = NoBudget
                 /\ gas_coins' = gas_coins
                 /\ sp_ret'.ret = "ok" =>
                        /\ abuse_metrics'.present
                        /\ abuse_metrics'.tx_count
                              \in {1, WrappingAdd(abuse_metrics.tx_count, 1)}]_vars

C39_Witness ==
    /\ ~user_budget.present
    /\ sp_ret.op = "build_and_sign"
    /\ sp_ret.ret = "ok"
    /\ abuse_metrics.tx_count = MaxTxPerWindow + 1
    /\ abuse_metrics.gas_spent > MaxGasPerWindow
    /\ gas_coins = 1

\* the acquire calls that passed the rate gate and wait for a permit
WaitingForPermit == {c \in Callers : AtConcurrencyGate(c)}

\* Every timestamp of the rate window can be given an owner of its own: an
\* acquire call that still waits for a permit, or one that has returned its
\* handle (the return is then no older than the timestamp).
TimestampsHaveOwners ==
    Len(InWindow(timestamps)) <= Cardinality(WaitingForPermit) + Len(grant_ages)

\* C40: every timestamp of the rate window belongs to an acquire call that
\* still waits for a permit or that has returned its handle: when an acquire
\* call blocked at the concurrency gate is cancelled, its timestamp does not
\* stay behind in the window.
C40_CancelFreesRateSlot ==
    [][(/\ TimestampsHaveOwners
        /\ \E c \in Callers : adm[c].pc = "queued" /\ adm'[c].pc = "idle")
       => TimestampsHaveOwners']_vars

====
